---- MODULE Spec2Model ----
(***************************************************************************)
(* tunnel-flow: server-side connection manager, pending-request table,     *)
(* proxy front door and URL pattern matcher.                               *)
(*                                                                         *)
(* Strings of the Go code are sequences of one-character strings, so that  *)
(* the strings package functions are computed, not assumed.                *)
(***************************************************************************)
EXTENDS Integers, Sequences, FiniteSets, TLC

(***************************************************************************)
(* Go strings package, as used by internal/utils/pattern.go                *)
(***************************************************************************)

\* sub occurs in s at 1-based position i
OccursAt(s, sub, i) ==
    /\ i >= 1
    /\ i + Len(sub) - 1 <= Len(s)
    /\ \A j \in 1..Len(sub) : s[i + j - 1] = sub[j]

\* strings.Index: 0-based position of the first occurrence, -1 when absent
StrIndex(s, sub) ==
    LET cand == { i \in 1..(Len(s) - Len(sub) + 1) : OccursAt(s, sub, i) }
    IN  IF cand = {} THEN -1
        ELSE (CHOOSE i \in cand : \A j \in cand : i <= j) - 1

\* strings.Contains
StrContains(s, sub) == StrIndex(s, sub) # -1

\* strings.HasPrefix
HasPrefix(s, p) == OccursAt(s, p, 1)

\* strings.HasSuffix
HasSuffix(s, p) == Len(p) <= Len(s) /\ OccursAt(s, p, Len(s) - Len(p) + 1)

\* strings.TrimPrefix
TrimPrefix(s, p) == IF HasPrefix(s, p) THEN SubSeq(s, Len(p) + 1, Len(s)) ELSE s

\* strings.TrimSuffix
TrimSuffix(s, p) == IF HasSuffix(s, p) THEN SubSeq(s, 1, Len(s) - Len(p)) ELSE s

\* strings.Split for a non-empty separator
RECURSIVE StrSplit(_, _)
StrSplit(s, sep) ==
    LET i == StrIndex(s, sep)
    IN  IF i = -1 THEN << s >>
        ELSE << SubSeq(s, 1, i) >> \o StrSplit(SubSeq(s, i + Len(sep) + 1, Len(s)), sep)

\* strings.Count for a non-empty substring (non-overlapping occurrences)
RECURSIVE StrCount(_, _)
StrCount(s, sub) ==
    LET i == StrIndex(s, sub)
    IN  IF i = -1 THEN 0
        ELSE 1 + StrCount(SubSeq(s, i + Len(sub) + 1, Len(s)), sub)

\* strings.Trim(s, "/"): strip every leading and trailing "/"
RECURSIVE TrimSlashes(_)
TrimSlashes(s) ==
    IF Len(s) > 0 /\ s[1] = "/" THEN TrimSlashes(SubSeq(s, 2, Len(s)))
    ELSE IF Len(s) > 0 /\ s[Len(s)] = "/" THEN TrimSlashes(SubSeq(s, 1, Len(s) - 1))
    ELSE s

Star == << "*" >>
DoubleStar == << "*", "*" >>
Slash == << "/" >>

(***************************************************************************)
(* internal/utils/pattern.go                                               *)
(***************************************************************************)

\* matchSegmentWithWildcard: loop over the "*"-separated parts of the
\* segment pattern, carrying currentPos
RECURSIVE SegLoop(_, _, _, _)
SegLoop(parts, segment, i, currentPos) ==
    IF i > Len(parts) THEN TRUE
    ELSE IF parts[i] = << >> THEN SegLoop(parts, segment, i + 1, currentPos)
    ELSE LET part == parts[i]
             pos  == StrIndex(SubSeq(segment, currentPos + 1, Len(segment)), part)
         IN  IF pos = -1 THEN FALSE
             ELSE IF i = 1 /\ pos # 0 THEN FALSE
             ELSE IF i = Len(parts) /\ currentPos + pos + Len(part) # Len(segment) THEN FALSE
             ELSE SegLoop(parts, segment, i + 1, currentPos + pos + Len(part))

matchSegmentWithWildcard(pattern, segment) ==
    LET parts == StrSplit(pattern, Star)
    IN  IF Len(parts) = 1 /\ parts[1] = << >> THEN TRUE
        ELSE SegLoop(parts, segment, 1, 0)

\* matchPrefix
matchPrefix(pattern, path) ==
    LET prefix == TrimSuffix(TrimSuffix(pattern, Star), Slash)
    IN  IF prefix = << >> THEN TRUE ELSE HasPrefix(path, prefix)

\* matchSuffix
matchSuffix(pattern, path) ==
    LET suffix == TrimPrefix(TrimPrefix(pattern, Star), Slash)
    IN  IF suffix = << >> THEN TRUE ELSE HasSuffix(path, suffix)

\* matchWithDoubleWildcard (always called with a pattern containing "**",
\* so the len(parts) == 1 fallback to MatchPattern is never taken)
matchWithDoubleWildcard(pattern, path) ==
    LET parts  == StrSplit(pattern, DoubleStar)
        n      == Len(parts)
        prefix == TrimSuffix(parts[1], Slash)
        preOK  == parts[1] = << >> \/ prefix = << >> \/ HasPrefix(path, prefix)
        path1  == IF parts[1] # << >> THEN TrimPrefix(path, prefix) ELSE path
        suffix == TrimPrefix(parts[n], Slash)
        sufOK  == parts[n] = << >> \/ suffix = << >> \/ HasSuffix(path1, suffix)
        path2  == IF parts[n] # << >> THEN TrimSuffix(path1, suffix) ELSE path1
    IN  /\ preOK
        /\ sufOK
        /\ \A i \in 2..(n - 1) :
              parts[i] = << >> \/ StrContains(path2, TrimSlashes(parts[i]))

\* the segment-by-segment comparison of MatchPattern
SegmentsMatch(patternParts, pathParts) ==
    \A i \in 1..Len(patternParts) :
        IF patternParts[i] = Star THEN TRUE
        ELSE IF StrContains(patternParts[i], Star)
             THEN matchSegmentWithWildcard(patternParts[i], pathParts[i])
             ELSE patternParts[i] = pathParts[i]

\* MatchPattern
MatchPattern(pattern, path) ==
    IF pattern = path THEN TRUE
    ELSE IF ~StrContains(pattern, Star) THEN pattern = path
    ELSE IF StrContains(pattern, DoubleStar) THEN matchWithDoubleWildcard(pattern, path)
    ELSE LET patternParts == StrSplit(pattern, Slash)
             pathParts    == StrSplit(path, Slash)
         IN  IF Len(patternParts) # Len(pathParts)
             THEN IF HasSuffix(patternParts[Len(patternParts)], Star)
                  THEN matchPrefix(pattern, path)
                  ELSE IF HasPrefix(patternParts[1], Star)
                       THEN matchSuffix(pattern, path)
                       ELSE FALSE
             ELSE SegmentsMatch(patternParts, pathParts)

\* position penalty loop of GetPatternPriority (Go index i is 0-based)
RECURSIVE PositionPenalty(_, _)
PositionPenalty(parts, i) ==
    IF i > Len(parts) THEN 0
    ELSE (IF parts[i] = Star THEN (Len(parts) - (i - 1)) * 10
          ELSE IF StrContains(parts[i], Star) THEN (Len(parts) - (i - 1)) * 5
          ELSE 0)
         + PositionPenalty(parts, i + 1)

\* GetPatternPriority
GetPatternPriority(pattern) ==
    IF ~StrContains(pattern, Star) THEN 1000
    ELSE IF StrContains(pattern, DoubleStar)
    THEN LET doubleWildcardCount == StrCount(pattern, DoubleStar)
             singleWildcardCount == StrCount(pattern, Star) - doubleWildcardCount * 2
         IN  300 - doubleWildcardCount * 50 - singleWildcardCount * 20
    ELSE IF HasSuffix(pattern, Star) THEN 150 + Len(TrimSuffix(pattern, Star))
    ELSE IF HasPrefix(pattern, Star) THEN 100 + Len(TrimPrefix(pattern, Star))
    ELSE LET priority == 700 - StrCount(pattern, Star) * 100
                         - PositionPenalty(StrSplit(pattern, Slash), 1)
         IN  IF priority < 0 THEN 1 ELSE priority

\* a validator that lets consecutive slashes through
IsValidPatternAnySlashes(pattern) ==
    /\ pattern # << >>
    /\ HasPrefix(pattern, Slash)

\* IsValidPattern
IsValidPattern(pattern) ==
    /\ pattern # << >>
    /\ HasPrefix(pattern, Slash)
    /\ ~StrContains(pattern, << "/", "/" >>)

\* NormalizePattern
NormalizePattern(pattern) ==
    LET p1 == IF ~HasPrefix(pattern, Slash) THEN Slash \o pattern ELSE pattern
    IN  IF Len(p1) > 1 /\ HasSuffix(p1, Slash) THEN TrimSuffix(p1, Slash) ELSE p1


(***************************************************************************)
(* Bounds and domains                                                      *)
(***************************************************************************)

MaxConns == 2          \* WebSocket upgrade attempts (connection slots)
MaxReq == 1            \* inbound HTTP proxy requests (msg_ids)
MaxRoutes == 2         \* rows of the route table
NumWorkers == 1        \* worker pool goroutines
SendQueueSize == 1     \* capacity of a connection's send_queue
WorkerQueueSize == 1   \* capacity of the worker pool task queue
MaxHeartbeats == 2     \* heartbeat loops of the agent followed at a time
MaxAgentReq == 2       \* REQUEST frames the agent reads from its socket
MaxPatternSegs == 6    \* segments of a pattern given to GetPatternPriority
MaxPathLen == 5        \* characters of a path given to MatchPattern
MaxStrLen == 4         \* characters of a string given to the pattern validator

\* ages of pending requests are counted in ticks of 30 s: the deadline
\* SendRequestAndWait is called with (30 s), config.RequestTimeout() used by
\* the 30 s sweep (30 s) and the maxAge of StartPendingCleanup (5 min) keep
\* their order; an age saturates one tick above the largest threshold in use
DeadlineTicks == 1
RequestTimeoutTicks == 1
PendingMaxAgeTicks == 2

\* retry.RetryConfig.MaxAttempts of the agent (config.MaxRetries()) and the
\* attempt from which ShouldRetry stops retrying an unclassified error
MaxRetries == 5
UnknownRetryLimit == 3

\* agent: config.PingTimeout() (60 s) in ticks of config.PingInterval()
\* (30 s), and maxFailures of heartbeatLoop
PingTimeoutTicks == 2
MaxPingFailures == 3

\* performHealthCheck: timeout := pingInterval * 3, in ticks of one ping
\* interval; the time since lastSeen saturates one tick above it
HealthTimeoutTicks == 3

ClientIds == { "A", "B" }
AuthTokenOf(c) == IF c = "A" THEN "tA" ELSE "tB"
QueryClientIds == { "", "A", "B" }
QueryTokens == { "", "tA", "tB" }

ConnIds == 1..MaxConns
ReqIds == 1..MaxReq
WorkerIds == 1..NumWorkers

PatSingle == << "/", "a", "p", "i", "/", "*", "/", "u", "s", "e", "r", "s" >>
PatDouble == << "/", "a", "p", "i", "/", "*", "*", "/", "u", "s", "e", "r", "s" >>
PatExact == << "/", "a", "p", "i", "/", "v", "1", "/", "u", "s", "e", "r", "s" >>
PathHealth == << "/", "h", "e", "a", "l", "t", "h" >>
PathUsers == PatExact
PathRoot == << "/" >>
PathUpload == << "/", "u", "p", "l", "o", "a", "d" >>
PathStatus == << "/", "s", "t", "a", "t", "u", "s" >>
ProxyPrefix == << "/", "p", "r", "o", "x", "y", "/" >>

Paths == { PathUsers, PathRoot, PathHealth }

\* rows of the route store: the two wildcard patterns for either client,
\* enabled or not, and one enabled route of client A for /health
RouteRecords ==
    [ pattern : { PatSingle, PatDouble }, clientID : ClientIds, enabled : BOOLEAN ]
        \cup { [ pattern |-> PathHealth, clientID |-> "A", enabled |-> TRUE ] }

\* one listing of every set of at most MaxRoutes distinct rows: the order of
\* the rows is immaterial, sort.Slice may leave equal priorities in any order
Listing(S) ==
    CHOOSE f \in [ 1..Cardinality(S) -> S ] :
        \A a, b \in 1..Cardinality(S) : a # b => f[a] # f[b]
RouteTables ==
    { Listing(S) : S \in { T \in SUBSET RouteRecords : Cardinality(T) <= MaxRoutes } }
DefaultRoutes == << [ pattern |-> PatExact, clientID |-> "A", enabled |-> TRUE ] >>

\* every string of at most n characters of the alphabet
Strings(alphabet, n) == UNION { [ 1..k -> alphabet ] : k \in 0..n }

\* "/" seg1 "/" seg2 ...
RECURSIVE JoinSegs(_)
JoinSegs(segs) ==
    IF Len(segs) = 0 THEN << >>
    ELSE Slash \o segs[1] \o JoinSegs(SubSeq(segs, 2, Len(segs)))

\* patterns whose priority is computed: up to MaxPatternSegs segments, each a
\* literal, "*" or "**"
PrioritySegs == { << "x" >>, Star, DoubleStar }
PriorityPatterns ==
    { JoinSegs(f) : f \in UNION { [ 1..k -> PrioritySegs ] : k \in 1..MaxPatternSegs } }

\* the patterns of TestGetPatternPriority
TestExact == << "/", "a", "p", "i", "/", "u", "s", "e", "r", "s" >>
TestPrefix == << "/", "a", "p", "i", "/", "*" >>
TestSuffix == << "*", "/", "u", "s", "e", "r", "s" >>
TestInSegment == << "/", "a", "p", "i", "/", "u", "s", "e", "r", "*" >>
TestPatterns == { TestExact, PatSingle, PatDouble, TestPrefix, TestSuffix, TestInSegment }

\* patterns and paths that are matched: one pattern of each form of
\* MatchPattern over the letters a, b, and every path of at most MaxPathLen
\* characters that starts with "/"
MatchDouble == << "/", "a", "/", "*", "*", "/", "b" >>
MatchPrefixPat == << "/", "a", "/", "*" >>
MatchInSegment == << "/", "a", "*", "b" >>
MatchSingle == << "/", "a", "/", "*", "/", "b" >>
MatchExact == << "/", "a", "/", "b" >>
MatchSuffixPat == << "*", "/", "b" >>
MatchPatterns ==
    { MatchDouble, MatchPrefixPat, MatchInSegment, MatchSingle, MatchExact,
      MatchSuffixPat }
PathAlphabet == { "/", "a", "b", "x" }
MatchPaths == { Slash \o t : t \in Strings(PathAlphabet, MaxPathLen - 1) }

\* strings given to IsValidPattern and NormalizePattern
PatternAlphabet == { "/", "a", "*" }
PatternStrings == Strings(PatternAlphabet, MaxStrLen)

\* the agent's configuration (config.ClientID(), config.AuthToken()) and the
\* REQUEST payloads it is sent: targets_json empty or one URL, either mode
AgentClientID == "A"
AgentAuthToken == AuthTokenOf(AgentClientID)
TargetBase == << "http://127.0.0.1:9000" >>
UrlSuffix == << "/api/users" >>
RouteModeOriginalPath == "original_path"
RouteModePathTransform == "path_transform"
RouteModes == { RouteModeOriginalPath, RouteModePathTransform }
\* where the handling of a REQUEST meets an error: nowhere, msg.ParsePayload,
\* http.NewRequest, client.Do, io.ReadAll
Faults == { "none", "parse", "build", "transport", "body" }
AgentRequests ==
    [ fault : Faults, targetsJSON : { << >>, TargetBase },
      urlSuffix : { UrlSuffix }, routeMode : RouteModes ]
\* error classes of ErrorClassifier.ClassifyError
ErrorTypes == { "network", "timeout", "auth", "protocol", "server", "unknown" }
NoRequest == [ msgID |-> 0 ]
NoResponse == [ msgID |-> 0 ]
NoRegister == [ clientID |-> "" ]

NoTask == [ kind |-> "none" ]
NoSnap == [ idOK |-> FALSE, tokenOK |-> FALSE, exists |-> FALSE,
            match |-> FALSE, enabled |-> FALSE ]
NoPayload == [ status |-> 0 ]

VARIABLES
    dbClients,      \* client store: client_id -> [exists, enabled, authToken, status]
    dbRoutes,       \* route store, in ListServerRoutes order
    clients,        \* Manager.clients: client_id -> connection slot, 0 = no entry
    conns,          \* ClientConn objects and their handler/reader/writer goroutines
    pending,        \* Manager.pending: set of msg_ids in the table
    reqs,           \* HTTP proxy requests / SendRequestAndWait calls, by msg_id
    wire,           \* msg_ids of REQUEST frames written to an agent socket
    taskQueue,      \* WorkerPool.taskQueue
    workers,        \* task each worker goroutine is executing
    statusUpdate,   \* handleUpdateClientStatus calls between disconnect and write
    panicked,       \* a send on a closed channel happened
    agent,          \* the agent process: connection loop, heartbeat, request handler
    fn              \* a call of a pattern function: its arguments and its result

vars == << dbClients, dbRoutes, clients, conns, pending, reqs, wire,
           taskQueue, workers, statusUpdate, panicked, agent, fn >>

\* lastSeen is the time since ClientConn.lastSeen in ticks of one ping
\* interval; registered records that handleRegister accepted a REGISTER frame
\* of this connection (it answered REGISTER_ACK success=true)
IdleConn ==
    [ pc |-> "idle", clientID |-> "", snap |-> NoSnap,
      cancelled |-> FALSE, reader |-> "none", writer |-> "none",
      sendQueue |-> << >>, lastSeen |-> 0, registered |-> FALSE ]

IdleReq ==
    [ pc |-> "idle", door |-> "", path |-> << >>, route |-> 0,
      clientID |-> "", age |-> 0, cancelled |-> FALSE,
      resultCh |-> << >>, chClosed |-> FALSE, outcome |-> "none",
      response |-> NoPayload, httpStatus |-> 0 ]

InitWith(tables) ==
    /\ dbClients = [ c \in ClientIds |->
                       [ exists |-> TRUE, enabled |-> TRUE,
                         authToken |-> AuthTokenOf(c), status |-> "" ] ]
    /\ dbRoutes \in tables
    /\ clients = [ c \in ClientIds |-> 0 ]
    /\ conns = [ k \in ConnIds |-> IdleConn ]
    /\ pending = {}
    /\ reqs = [ r \in ReqIds |-> IdleReq ]
    /\ wire = {}
    /\ taskQueue = << >>
    /\ workers = [ w \in WorkerIds |-> NoTask ]
    /\ statusUpdate = {}
    /\ panicked = FALSE

\* the agent after NewAgent, before Start: no socket, no goroutine running
\* beats holds one record per heartbeatLoop goroutine followed, pongAge the
\* time since lastPongTime (n: more than n-1 and at most n ping intervals),
\* ack the REGISTER_ACK read on the current socket, writeMu the holder of the
\* write lock, writers the goroutines inside WriteJSON on the socket in a.conn
\* a goroutine of the agent that writes to the socket: the connect call, the
\* read loop or the heartbeat loop in slot i; NoWriter is the free write lock
ConnectWriter == << "connect", 0 >>
ReaderWriter == << "reader", 0 >>
HeartbeatWriter(i) == << "heartbeat", i >>
NoWriter == << "free", 0 >>

\* a heartbeat loop that is not running
NoBeat == [ on |-> FALSE, failures |-> 0, writing |-> FALSE ]

IdleAgent ==
    [ pc |-> "start", attempt |-> 0, conn |-> "nil", stopped |-> FALSE,
      heartbeat |-> FALSE, serverUp |-> TRUE, register |-> NoRegister,
      handled |-> 0, req |-> NoRequest, resp |-> NoResponse, dialled |-> << >>,
      out |-> << >>, beats |-> [ i \in 1..MaxHeartbeats |-> NoBeat ],
      pongAge |-> 0, ack |-> "none", writeMu |-> NoWriter, writers |-> {} ]

\* no pattern function has been called
NoCall == [ op |-> "none" ]

\* state after NewManager with the route store holding one exact route
Init == InitWith({ DefaultRoutes }) /\ agent = IdleAgent /\ fn = NoCall

\* a pattern function is about to be called with arguments of the bounded sets
InitPriority ==
    /\ InitWith({ DefaultRoutes })
    /\ agent = IdleAgent
    /\ fn \in [ op : { "input" }, pattern : PriorityPatterns, other : TestPatterns ]

InitMatch ==
    /\ InitWith({ DefaultRoutes })
    /\ agent = IdleAgent
    /\ fn \in [ op : { "input" }, pattern : MatchPatterns, path : MatchPaths ]

InitValidate ==
    /\ InitWith({ DefaultRoutes })
    /\ agent = IdleAgent
    /\ fn \in [ op : { "input" }, pattern : PatternStrings ]

\* state after NewManager with any route table of at most MaxRoutes rows
InitProxy == InitWith(RouteTables) /\ agent = IdleAgent /\ fn = NoCall


(***************************************************************************)
(* Manager: connection table (manager.go)                                  *)
(***************************************************************************)

Frame(op, msgID) == [ op |-> op, msgID |-> msgID ]

\* values of a PING/PONG timestamp and of the clock that stamps them
Timestamps == { 1, 2 }

\* CONTROL/REGISTER with RegisterPayload.AuthToken
RegisterFrame(tok) == [ op |-> "REGISTER", msgID |-> 0, authToken |-> tok ]

\* CONTROL/REGISTER_ACK with RegisterAckPayload.Success
RegisterAckFrame(success) == [ op |-> "REGISTER_ACK", msgID |-> 0, success |-> success ]

\* CONTROL/PING with PingPayload.Timestamp
PingFrame(t) == [ op |-> "PING", msgID |-> 0, timestamp |-> t ]

\* CONTROL/PONG with PongPayload.Timestamp
PongFrame(t) == [ op |-> "PONG", msgID |-> 0, timestamp |-> t ]

\* IsClientConnected
IsClientConnected(cid) == clients[cid] # 0

\* variant: the send on sendQueue without the default branch
SendToClientErrNoDefault(cs, cid) ==
    IF clients[cid] = 0 THEN "not found" ELSE ""

\* SendToClient, its error: "" on success
SendToClientErr(cs, cid) ==
    IF clients[cid] = 0 THEN "not found"
    ELSE IF Len(cs[clients[cid]].sendQueue) >= SendQueueSize THEN "queue full"
    ELSE ""

\* SendToClient, its effect on the connections
SendToClient(cs, cid, frame) ==
    IF SendToClientErr(cs, cid) = ""
    THEN [ cs EXCEPT ![clients[cid]].sendQueue = Append(@, frame) ]
    ELSE cs

\* WorkerPool.Submit: non-blocking, ErrQueueFull drops the task
Submit(q, task) == IF Len(q) < WorkerQueueSize THEN Append(q, task) ELSE q

\* the checks of HandleWebSocket on the query parameters and the client record
AuthSnapshot(cid, tok) ==
    LET found == cid \in ClientIds /\ dbClients[cid].exists
    IN  [ idOK    |-> cid # "",
          tokenOK |-> tok # "",
          exists  |-> found,
          match   |-> found /\ dbClients[cid].authToken = tok,
          enabled |-> found /\ dbClients[cid].enabled ]

\* variant: the check of client.Enabled left out
UpgradeAllowedNoEnabled(snap) ==
    snap.idOK /\ snap.tokenOK /\ snap.exists /\ snap.match

\* HandleWebSocket reaches Upgrade only past every early return
UpgradeAllowed(snap) ==
    snap.idOK /\ snap.tokenOK /\ snap.exists /\ snap.match /\ snap.enabled

\* HandleWebSocket up to and including upgrader.Upgrade
HandleWebSocket(k, cid, tok, upgradeOK) ==
    /\ conns[k].pc = "idle"
    /\ IF k = 1 THEN TRUE ELSE conns[k - 1].pc # "idle"
    /\ LET snap == AuthSnapshot(cid, tok)
       IN  conns' = [ conns EXCEPT ![k] =
                        IF UpgradeAllowed(snap) /\ upgradeOK
                        THEN [ @ EXCEPT !.pc = "upgraded", !.clientID = cid, !.snap = snap ]
                        ELSE [ @ EXCEPT !.pc = "rejected", !.snap = snap ] ]
    /\ UNCHANGED << agent, fn, dbClients, dbRoutes, clients, pending, reqs, wire,
                    taskQueue, workers, statusUpdate, panicked >>

\* registerClient: m.clients[clientID] = client
RegisteredTable(k) == [ clients EXCEPT ![conns[k].clientID] = k ]

\* registerClient's effect on the connection that was in the table
RegisteredConns(k) == conns

\* handleConnection: build the ClientConn, registerClient, start both loops
registerClient(k) ==
    /\ conns[k].pc = "upgraded"
    /\ clients' = RegisteredTable(k)
    /\ conns' = [ RegisteredConns(k) EXCEPT ![k] =
                    [ @ EXCEPT !.pc = "running", !.reader = "top", !.writer = "run" ] ]
    /\ UNCHANGED << agent, fn, dbClients, dbRoutes, pending, reqs, wire, taskQueue,
                    workers, statusUpdate, panicked >>

\* clientReader, top of the loop on entry: return when the context is
\* cancelled
ReaderTop(k) ==
    /\ conns[k].pc = "running"
    /\ conns[k].reader = "top"
    /\ conns' = [ conns EXCEPT ![k].reader =
                    IF conns[k].cancelled THEN "done" ELSE "read" ]
    /\ UNCHANGED << agent, fn, dbClients, dbRoutes, clients, pending, reqs, wire,
                    taskQueue, workers, statusUpdate, panicked >>

\* frames an agent can put on a socket: RESPONSE and ERROR frames carry the
\* msg_id of a REQUEST frame some agent has received
AgentFrames ==
    { Frame("RESPONSE", m) : m \in wire } \cup { Frame("ERROR", m) : m \in wire }
        \cup { Frame("PING", 0) }

\* clientReader: ReadMessage returned a frame; client.lastSeen = now;
\* handleMessage submits a MessageTask to the worker pool; back at the top of
\* the loop the reader returns when the context is cancelled
ReaderRead(k, f) ==
    /\ conns[k].pc = "running"
    /\ conns[k].reader = "read"
    /\ taskQueue' = Submit(taskQueue, [ kind |-> "msg", client |-> conns[k].clientID,
                                        conn |-> k, frame |-> f ])
    /\ conns' = [ conns EXCEPT ![k] =
                    [ @ EXCEPT !.lastSeen = 0,
                               !.reader = IF conns[k].cancelled THEN "done" ELSE "read" ] ]
    /\ UNCHANGED << agent, fn, dbClients, dbRoutes, clients, pending, reqs, wire,
                    workers, statusUpdate, panicked >>

\* clientReader: ReadMessage failed (peer closed, network error, 60 s read
\* deadline): cancel the context and return
ReaderError(k) ==
    /\ conns[k].pc = "running"
    /\ conns[k].reader = "read"
    /\ conns' = [ conns EXCEPT ![k].reader = "done", ![k].cancelled = TRUE ]
    /\ UNCHANGED << agent, fn, dbClients, dbRoutes, clients, pending, reqs, wire,
                    taskQueue, workers, statusUpdate, panicked >>

\* clientWriter: a frame popped from sendQueue is written to the socket
WriterSend(k, ok) ==
    /\ conns[k].pc = "running"
    /\ conns[k].writer = "run"
    /\ conns[k].sendQueue # << >>
    /\ LET f == Head(conns[k].sendQueue)
       IN  /\ conns' = [ conns EXCEPT ![k] =
                           [ @ EXCEPT !.sendQueue = Tail(@),
                                      !.writer = IF ok THEN "run" ELSE "done",
                                      !.cancelled = IF ok THEN @ ELSE TRUE ] ]
           /\ wire' = IF ok /\ f.op = "REQUEST" THEN wire \cup { f.msgID } ELSE wire
    /\ UNCHANGED << agent, fn, dbClients, dbRoutes, clients, pending, reqs, taskQueue,
                    workers, statusUpdate, panicked >>

\* clientWriter: the ping ticker fired; sendProtocolPing goes through
\* SendToClient(clientID), an error cancels this connection
WriterTick(k) ==
    /\ conns[k].pc = "running"
    /\ conns[k].writer = "run"
    /\ LET cid == conns[k].clientID
           err == SendToClientErr(conns, cid)
           cs  == SendToClient(conns, cid, Frame("PING", 0))
       IN  conns' = IF err = "" THEN cs
                    ELSE [ cs EXCEPT ![k].writer = "done", ![k].cancelled = TRUE ]
    /\ UNCHANGED << agent, fn, dbClients, dbRoutes, clients, pending, reqs, wire,
                    taskQueue, workers, statusUpdate, panicked >>

\* clientWriter: case <-client.ctx.Done()
WriterCtxDone(k) ==
    /\ conns[k].pc = "running"
    /\ conns[k].writer = "run"
    /\ conns[k].cancelled
    /\ conns' = [ conns EXCEPT ![k].writer = "done" ]
    /\ UNCHANGED << agent, fn, dbClients, dbRoutes, clients, pending, reqs, wire,
                    taskQueue, workers, statusUpdate, panicked >>

\* variant: the table is left as it is
UnregisteredTableKept(k) == clients

\* unregisterClient: delete(m.clients, clientID)
UnregisteredTable(k) == [ clients EXCEPT ![conns[k].clientID] = 0 ]

\* handleConnection after wg.Wait(): the deferred cancel, unregisterClient
\* (with its DatabaseUpdateTask) and conn.Close
HandlerExit(k) ==
    /\ conns[k].pc = "running"
    /\ conns[k].reader = "done"
    /\ conns[k].writer = "done"
    /\ clients' = UnregisteredTable(k)
    /\ taskQueue' = Submit(taskQueue, [ kind |-> "db", client |-> conns[k].clientID ])
    /\ conns' = [ conns EXCEPT ![k].pc = "closed", ![k].cancelled = TRUE ]
    /\ UNCHANGED << agent, fn, dbClients, dbRoutes, pending, reqs, wire, workers,
                    statusUpdate, panicked >>

\* DisconnectClient: cancel the context of the table's connection
DisconnectClient(cs, cid) ==
    IF clients[cid] = 0 THEN cs
    ELSE [ cs EXCEPT ![clients[cid]].cancelled = TRUE ]


(***************************************************************************)
(* Management API (server.go)                                              *)
(***************************************************************************)

\* handleUpdateClientEnabled: db.UpdateClientEnabled and nothing else
handleUpdateClientEnabled(c, enabled) ==
    /\ dbClients[c].exists
    /\ dbClients[c].enabled # enabled
    /\ c \notin statusUpdate
    /\ dbClients' = [ dbClients EXCEPT ![c].enabled = enabled ]
    /\ UNCHANGED << agent, fn, dbRoutes, clients, conns, pending, reqs, wire, taskQueue,
                    workers, statusUpdate, panicked >>

\* handleUpdateClientStatus with status "disabled", first half:
\* IsClientConnected, DisconnectClient
handleUpdateClientStatusDisconnect(c) ==
    /\ dbClients[c].exists
    /\ c \notin statusUpdate
    /\ conns' = DisconnectClient(conns, c)
    /\ statusUpdate' = statusUpdate \cup { c }
    /\ UNCHANGED << agent, fn, dbClients, dbRoutes, clients, pending, reqs, wire,
                    taskQueue, workers, panicked >>

\* handleUpdateClientStatus with status "disabled", second half:
\* db.UpdateClientEnabled(false), db.UpdateClientStatus("disabled")
handleUpdateClientStatusWrite(c) ==
    /\ c \in statusUpdate
    /\ dbClients' = [ dbClients EXCEPT ![c].enabled = FALSE, ![c].status = "disabled" ]
    /\ statusUpdate' = statusUpdate \ { c }
    /\ UNCHANGED << agent, fn, dbRoutes, clients, conns, pending, reqs, wire, taskQueue,
                    workers, panicked >>

\* handleUpdateClientStatus with status "online"
handleUpdateClientStatusOnline(c) ==
    /\ dbClients[c].exists
    /\ c \notin statusUpdate
    /\ ~(dbClients[c].enabled /\ dbClients[c].status = "online")
    /\ dbClients' = [ dbClients EXCEPT ![c].enabled = TRUE, ![c].status = "online" ]
    /\ UNCHANGED << agent, fn, dbRoutes, clients, conns, pending, reqs, wire, taskQueue,
                    workers, statusUpdate, panicked >>

\* handleDeleteClient: db.DeleteClient
handleDeleteClient(c) ==
    /\ dbClients[c].exists
    /\ c \notin statusUpdate
    /\ dbClients' = [ dbClients EXCEPT ![c].exists = FALSE ]
    /\ UNCHANGED << agent, fn, dbRoutes, clients, conns, pending, reqs, wire, taskQueue,
                    workers, statusUpdate, panicked >>

(***************************************************************************)
(* Worker pool and message handlers (queue.go, handlers.go)                *)
(***************************************************************************)

\* WorkerPool.worker: receive a task from taskQueue (of the idle workers,
\* which are interchangeable, the first)
WorkerTake(w) ==
    /\ workers[w] = NoTask
    /\ \A v \in WorkerIds : v < w => workers[v] # NoTask
    /\ taskQueue # << >>
    /\ workers' = [ workers EXCEPT ![w] = Head(taskQueue) ]
    /\ taskQueue' = Tail(taskQueue)
    /\ UNCHANGED << agent, fn, dbClients, dbRoutes, clients, conns, pending, reqs, wire,
                    statusUpdate, panicked >>

\* variant: the handler does not look the entry up
PendingExistsUnchecked(m) == TRUE

\* the lookup of handleResponse / handleErrorMessage in m.pending
PendingExists(m) == m \in pending

\* the non-blocking send on pending.resultCh (capacity 1)
SlotFree(rq, m) == Len(rq[m].resultCh) < 1

\* handleResponse / handleErrorMessage: notify the waiting request
Notify(rq, m, payload) ==
    IF PendingExists(m) /\ SlotFree(rq, m)
    THEN [ rq EXCEPT ![m].resultCh = Append(@, payload) ]
    ELSE rq

\* DatabaseUpdateTask.Execute: db.UpdateClientStatus(clientID, "offline")
ExecuteDatabaseUpdate(w) ==
    /\ workers[w].kind = "db"
    /\ dbClients' = [ dbClients EXCEPT ![workers[w].client].status =
                        IF dbClients[workers[w].client].exists THEN "offline" ELSE @ ]
    /\ workers' = [ workers EXCEPT ![w] = NoTask ]
    /\ UNCHANGED << agent, fn, dbRoutes, clients, conns, pending, reqs, wire, taskQueue,
                    statusUpdate, panicked >>

\* MessageTask.Execute for a MESSAGE/RESPONSE frame: handleResponse
handleResponse(w) ==
    /\ workers[w].kind = "msg"
    /\ workers[w].frame.op = "RESPONSE"
    /\ LET m == workers[w].frame.msgID
       IN  /\ reqs' = Notify(reqs, m, [ status |-> 200 ])
           /\ panicked' = (panicked \/ (PendingExists(m) /\ reqs[m].chClosed))
    /\ workers' = [ workers EXCEPT ![w] = NoTask ]
    /\ UNCHANGED << agent, fn, dbClients, dbRoutes, clients, conns, pending, wire,
                    taskQueue, statusUpdate >>

\* MessageTask.Execute for an ERROR frame: handleErrorMessage
handleErrorMessage(w) ==
    /\ workers[w].kind = "msg"
    /\ workers[w].frame.op = "ERROR"
    /\ LET m == workers[w].frame.msgID
       IN  /\ reqs' = Notify(reqs, m, [ status |-> 500 ])
           /\ panicked' = (panicked \/ (PendingExists(m) /\ reqs[m].chClosed))
    /\ workers' = [ workers EXCEPT ![w] = NoTask ]
    /\ UNCHANGED << agent, fn, dbClients, dbRoutes, clients, conns, pending, wire,
                    taskQueue, statusUpdate >>

\* handlePing: the timestamp of the PING payload, the clock when the frame
\* has no payload
PingTimestamp(f, now) == IF "timestamp" \in DOMAIN f THEN f.timestamp ELSE now

\* MessageTask.Execute for a CONTROL/PING frame: handlePing sets
\* client.lastSeen and sendPong answers through SendToClient(clientID)
handlePing(w, now) ==
    /\ workers[w].kind = "msg"
    /\ workers[w].frame.op = "PING"
    /\ conns' = SendToClient([ conns EXCEPT ![workers[w].conn].lastSeen = 0 ],
                             workers[w].client,
                             PongFrame(PingTimestamp(workers[w].frame, now)))
    /\ workers' = [ workers EXCEPT ![w] = NoTask ]
    /\ UNCHANGED << agent, fn, dbClients, dbRoutes, clients, pending, reqs, wire,
                    taskQueue, statusUpdate, panicked >>



\* a call of SendToClient by any of its callers, with what it returned
CallSendToClient(cid, f) ==
    /\ conns' = SendToClient(conns, cid, f)
    /\ fn' = [ op |-> "SendToClient", clientID |-> cid, frame |-> f,
               queued |-> IF clients[cid] = 0 THEN 0
                          ELSE Len(conns[clients[cid]].sendQueue),
               err |-> SendToClientErr(conns, cid) ]
    /\ UNCHANGED << agent, dbClients, dbRoutes, clients, pending, reqs, wire,
                    taskQueue, workers, statusUpdate, panicked >>

\* handleRegister: the checks on the client record and on the token of the
\* payload
RegisterAccepted(c, tok) ==
    /\ dbClients[c].exists
    /\ dbClients[c].enabled
    /\ tok # ""
    /\ dbClients[c].authToken = tok

\* MessageTask.Execute for a CONTROL/REGISTER frame: handleRegister, with
\* sendRegisterResponse through SendToClient(clientID); a refused REGISTER is
\* answered and nothing else
handleRegister(w) ==
    /\ workers[w].kind = "msg"
    /\ workers[w].frame.op = "REGISTER"
    /\ LET c  == workers[w].client
           k  == workers[w].conn
           ok == RegisterAccepted(c, workers[w].frame.authToken)
       IN  /\ dbClients' = IF ok THEN [ dbClients EXCEPT ![c].status = "online" ]
                           ELSE dbClients
           /\ conns' = SendToClient([ conns EXCEPT ![k].registered = @ \/ ok ],
                                    c, RegisterAckFrame(ok))
    /\ workers' = [ workers EXCEPT ![w] = NoTask ]
    /\ UNCHANGED << agent, fn, dbRoutes, clients, pending, reqs, wire, taskQueue,
                    statusUpdate, panicked >>

\* one ping interval passes
PingIntervalPasses ==
    /\ \E k \in ConnIds : conns[k].pc = "running" /\ conns[k].lastSeen <= HealthTimeoutTicks
    /\ conns' = [ k \in ConnIds |->
                    IF conns[k].pc = "running" /\ conns[k].lastSeen <= HealthTimeoutTicks
                    THEN [ conns[k] EXCEPT !.lastSeen = @ + 1 ] ELSE conns[k] ]
    /\ UNCHANGED << agent, fn, dbClients, dbRoutes, clients, pending, reqs, wire,
                    taskQueue, workers, statusUpdate, panicked >>

\* performHealthCheck: the connections of m.clients whose lastSeen is more
\* than pingInterval * 3 ago
Inactive(k) ==
    /\ \E c \in ClientIds : clients[c] = k
    /\ conns[k].lastSeen > HealthTimeoutTicks

\* performHealthCheck, run by the health-check ticker every ping interval
performHealthCheck ==
    /\ conns' = [ k \in ConnIds |->
                    IF Inactive(k) THEN [ conns[k] EXCEPT !.cancelled = TRUE ]
                    ELSE conns[k] ]
    /\ UNCHANGED << agent, fn, dbClients, dbRoutes, clients, pending, reqs, wire,
                    taskQueue, workers, statusUpdate, panicked >>

\* Manager.Close: m.cancel() ends the context of every connection, present
\* and future (each is a child of m.ctx); the pending contexts are cancelled
Close ==
    /\ \E k \in ConnIds : ~conns[k].cancelled /\ conns[k].pc # "rejected"
    /\ conns' = [ k \in ConnIds |->
                    IF conns[k].pc # "rejected"
                    THEN [ conns[k] EXCEPT !.cancelled = TRUE ] ELSE conns[k] ]
    /\ reqs' = [ r \in ReqIds |->
                   IF r \in pending THEN [ reqs[r] EXCEPT !.cancelled = TRUE ]
                   ELSE reqs[r] ]
    /\ UNCHANGED << agent, fn, dbClients, dbRoutes, clients, pending, wire,
                    taskQueue, workers, statusUpdate, panicked >>

(***************************************************************************)
(* Proxy front door (proxy/handler.go)                                     *)
(***************************************************************************)

\* the filter loop: routes that are enabled and whose pattern matches
MatchedRoutes(path) ==
    { i \in 1..Len(dbRoutes) :
        MatchPattern(dbRoutes[i].pattern, path) /\ dbRoutes[i].enabled }

\* variant: priority ascending
PriorityLessAscending(i, j) ==
    GetPatternPriority(dbRoutes[i].pattern) < GetPatternPriority(dbRoutes[j].pattern)

\* the comparison function handed to sort.Slice: priority descending
PriorityLess(i, j) ==
    GetPatternPriority(dbRoutes[i].pattern) > GetPatternPriority(dbRoutes[j].pattern)

\* the orders sort.Slice may leave matchedRoutes in (it is not stable)
SortedOrders(S) ==
    { f \in [ 1..Cardinality(S) -> S ] :
        /\ \A a, b \in 1..Cardinality(S) : a # b => f[a] # f[b]
        /\ \A a, b \in 1..Cardinality(S) : a < b => ~PriorityLess(f[b], f[a]) }

\* variant: the client record is not consulted
RouteAvailableNoEnabled(i) ==
    IsClientConnected(dbRoutes[i].clientID)

\* the test of the selection loop on one route: client connected, client
\* record readable and enabled
RouteAvailable(i) ==
    /\ IsClientConnected(dbRoutes[i].clientID)
    /\ dbClients[dbRoutes[i].clientID].exists
    /\ dbClients[dbRoutes[i].clientID].enabled

\* the selection loop: first available route of the sorted list, 0 = nil
SelectRoute(order) ==
    LET avail == { a \in 1..Len(order) : RouteAvailable(order[a]) }
    IN  IF avail = {} THEN 0
        ELSE order[CHOOSE a \in avail : \A b \in avail : a <= b]

\* HandleDirectProxyRequest skips these paths with http.NotFound
IsSpecialPath(path) ==
    \/ path = PathUpload
    \/ path = PathHealth
    \/ path = PathStatus
    \/ HasPrefix(path, ProxyPrefix)

\* a request answered by the front door without dispatch
Answered(rq, door, path, status) ==
    [ rq EXCEPT !.pc = "done", !.door = door, !.path = path, !.httpStatus = status ]

\* route lookup, sort and selection shared by both front-door handlers
RouteAndForward(rq, door, path, order) ==
    IF MatchedRoutes(path) = {} THEN Answered(rq, door, path, 404)
    ELSE IF SelectRoute(order) = 0 THEN Answered(rq, door, path, 503)
    ELSE [ rq EXCEPT !.pc = "forward", !.door = door, !.path = path,
                     !.route = SelectRoute(order),
                     !.clientID = dbRoutes[SelectRoute(order)].clientID ]

\* HandleDirectProxyRequest up to the call of forwardRequestToClient
HandleDirectProxyRequest(r, path) ==
    /\ reqs[r].pc = "idle"
    /\ IF r = 1 THEN TRUE ELSE reqs[r - 1].pc # "idle"
    /\ \E order \in SortedOrders(MatchedRoutes(path)) :
          reqs' = [ reqs EXCEPT ![r] =
                      IF IsSpecialPath(path) THEN Answered(@, "direct", path, 404)
                      ELSE IF path = PathRoot THEN Answered(@, "direct", path, 400)
                      ELSE RouteAndForward(@, "direct", path, order) ]
    /\ UNCHANGED << agent, fn, dbClients, dbRoutes, clients, conns, pending, wire,
                    taskQueue, workers, statusUpdate, panicked >>

\* HandleProxyRequest (and Server.handleProxyRequest) up to the dispatch;
\* suffix is the request path with the "/proxy" prefix trimmed
HandleProxyRequest(r, suffix) ==
    /\ reqs[r].pc = "idle"
    /\ IF r = 1 THEN TRUE ELSE reqs[r - 1].pc # "idle"
    /\ \E order \in SortedOrders(MatchedRoutes(suffix)) :
          reqs' = [ reqs EXCEPT ![r] =
                      IF suffix = << >> THEN Answered(@, "prefix", suffix, 400)
                      ELSE RouteAndForward(@, "prefix", suffix, order) ]
    /\ UNCHANGED << agent, fn, dbClients, dbRoutes, clients, conns, pending, wire,
                    taskQueue, workers, statusUpdate, panicked >>

(***************************************************************************)
(* Pending-request table (request.go)                                      *)
(***************************************************************************)

\* variant: a context without deadline
CtxDoneNoDeadline(rq) == rq.cancelled

\* pending.ctx.Done(): the deadline passed or cancel was called
CtxDone(rq) == rq.cancelled \/ rq.age >= DeadlineTicks

\* SendRequestAndWait: the IsClientConnected check, then
\* m.pending[msgID] = pending (nothing but the connection table, which
\* SendToClient reads again, can change in between)
SRWRegister(r) ==
    /\ reqs[r].pc = "forward"
    /\ pending' = IF IsClientConnected(reqs[r].clientID) THEN pending \cup { r }
                  ELSE pending
    /\ reqs' = [ reqs EXCEPT ![r] =
                   IF IsClientConnected(reqs[r].clientID)
                   THEN [ @ EXCEPT !.pc = "registered" ]
                   ELSE [ @ EXCEPT !.pc = "done", !.outcome = "not connected",
                                   !.httpStatus = 502 ] ]
    /\ UNCHANGED << agent, fn, dbClients, dbRoutes, clients, conns, wire, taskQueue,
                    workers, statusUpdate, panicked >>

\* SendRequestAndWait: SendToClient(clientID, requestMsg)
SRWSend(r) ==
    /\ reqs[r].pc = "registered"
    /\ LET err == SendToClientErr(conns, reqs[r].clientID)
       IN  /\ conns' = SendToClient(conns, reqs[r].clientID, Frame("REQUEST", r))
           /\ reqs' = [ reqs EXCEPT ![r] =
                          IF err = "" THEN [ @ EXCEPT !.pc = "waiting" ]
                          ELSE [ @ EXCEPT !.pc = "returning", !.outcome = "send error" ] ]
    /\ UNCHANGED << agent, fn, dbClients, dbRoutes, clients, pending, wire, taskQueue,
                    workers, statusUpdate, panicked >>

\* SendRequestAndWait: case response := <-resultCh
SRWReceive(r) ==
    /\ reqs[r].pc = "waiting"
    /\ reqs[r].resultCh # << >>
    /\ reqs' = [ reqs EXCEPT ![r] =
                   [ @ EXCEPT !.pc = "returning", !.outcome = "response",
                              !.response = Head(reqs[r].resultCh),
                              !.resultCh = Tail(reqs[r].resultCh) ] ]
    /\ UNCHANGED << agent, fn, dbClients, dbRoutes, clients, conns, pending, wire,
                    taskQueue, workers, statusUpdate, panicked >>

\* SendRequestAndWait: case <-pending.ctx.Done()
SRWTimeout(r) ==
    /\ reqs[r].pc = "waiting"
    /\ CtxDone(reqs[r])
    /\ reqs' = [ reqs EXCEPT ![r].pc = "returning", ![r].outcome = "timeout" ]
    /\ UNCHANGED << agent, fn, dbClients, dbRoutes, clients, conns, pending, wire,
                    taskQueue, workers, statusUpdate, panicked >>

\* status forwardRequestToClient answers with after SendRequestAndWait
ProxyStatus(rq) == IF rq.outcome = "response" THEN rq.response.status ELSE 502

\* a deferred cleanup that closes resultCh and leaves the entry in m.pending
SRWDeferKeepsEntry(r) ==
    /\ reqs[r].pc = "returning"
    /\ pending' = pending
    /\ reqs' = [ reqs EXCEPT ![r] =
                   [ @ EXCEPT !.pc = "done", !.cancelled = TRUE, !.age = 0,
                              !.chClosed = TRUE, !.resultCh = << >>,
                              !.httpStatus = ProxyStatus(reqs[r]) ] ]
    /\ UNCHANGED << agent, fn, dbClients, dbRoutes, clients, conns, wire, taskQueue,
                    workers, statusUpdate, panicked >>

\* the deferred function: delete(m.pending, msgID), cancel(),
\* close(resultCh), whose buffered value nobody can receive any more (the
\* entry was the only way to the channel); then forwardRequestToClient
\* writes the HTTP answer
SRWDefer(r) ==
    /\ reqs[r].pc = "returning"
    /\ pending' = pending \ { r }
    /\ reqs' = [ reqs EXCEPT ![r] =
                   [ @ EXCEPT !.pc = "done", !.cancelled = TRUE, !.age = 0,
                              !.chClosed = TRUE, !.resultCh = << >>,
                              !.httpStatus = ProxyStatus(reqs[r]) ] ]
    /\ UNCHANGED << agent, fn, dbClients, dbRoutes, clients, conns, wire, taskQueue,
                    workers, statusUpdate, panicked >>

\* the age of a pending entry, now - createdAt, counts while the entry is
\* in the table
Aging(r) == r \in pending

\* 30 s pass
Tick(cap) ==
    /\ \E r \in ReqIds : Aging(r) /\ reqs[r].age < cap
    /\ reqs' = [ r \in ReqIds |->
                   IF Aging(r) /\ reqs[r].age < cap
                   THEN [ reqs[r] EXCEPT !.age = @ + 1 ] ELSE reqs[r] ]
    /\ UNCHANGED << agent, fn, dbClients, dbRoutes, clients, conns, pending, wire,
                    taskQueue, workers, statusUpdate, panicked >>

\* entries the 30 s sweep evicts: now - createdAt > config.RequestTimeout()
Expired(m) == reqs[m].age > RequestTimeoutTicks

\* cleanupExpiredPending: cancel and delete every expired entry
cleanupExpiredPending ==
    /\ \E m \in pending : Expired(m)
    /\ pending' = { m \in pending : ~Expired(m) }
    /\ reqs' = [ r \in ReqIds |->
                   IF r \in pending /\ Expired(r)
                   THEN [ reqs[r] EXCEPT !.cancelled = TRUE, !.age = 0 ]
                   ELSE reqs[r] ]
    /\ UNCHANGED << agent, fn, dbClients, dbRoutes, clients, conns, wire, taskQueue,
                    workers, statusUpdate, panicked >>

\* CleanupExpiredPending(5 min), the sweep of StartPendingCleanup: a
\* non-blocking 504 into the slot of every entry older than maxAge, then delete
CleanupExpiredPending ==
    /\ \E m \in pending : reqs[m].age > PendingMaxAgeTicks
    /\ pending' = { m \in pending : ~(reqs[m].age > PendingMaxAgeTicks) }
    /\ reqs' = [ r \in ReqIds |->
                   IF r \in pending /\ reqs[r].age > PendingMaxAgeTicks
                   THEN [ reqs[r] EXCEPT
                            !.age = 0,
                            !.resultCh = IF SlotFree(reqs, r)
                                         THEN Append(@, [ status |-> 504 ]) ELSE @ ]
                   ELSE reqs[r] ]
    /\ panicked' = (panicked \/ \E m \in pending :
                                  reqs[m].age > PendingMaxAgeTicks /\ reqs[m].chClosed)
    /\ UNCHANGED << agent, fn, dbClients, dbRoutes, clients, conns, wire, taskQueue,
                    workers, statusUpdate >>


(***************************************************************************)
(* Agent (tunnel-flow-agent: logging/logger.go, retry/strategy.go)         *)
(***************************************************************************)

serverVars == << dbClients, dbRoutes, clients, conns, pending, reqs, wire,
                 taskQueue, workers, statusUpdate, panicked >>

\* RetryStrategy.ShouldRetry
ShouldRetry(errorType, attempt) ==
    IF attempt >= MaxRetries THEN FALSE
    ELSE IF errorType \in { "network", "timeout", "server" } THEN TRUE
    ELSE IF errorType \in { "auth", "protocol" } THEN FALSE
    ELSE attempt < UnknownRetryLimit

\* RetryStrategy.ExecuteWithRetry after fn() failed at this attempt: TRUE when
\* the loop goes on to wait for the delay of the next attempt
RetryAgain(errorType, attempt) ==
    ShouldRetry(errorType, attempt) /\ attempt < MaxRetries

\* Agent.Start: go a.connectionLoop()
Start ==
    /\ agent.pc = "start"
    /\ agent' = [ agent EXCEPT !.pc = "loop" ]
    /\ UNCHANGED << serverVars, fn >>

\* Agent.connectionLoop, top of the loop: return when stopCh is closed, else
\* connectWithRetry starts ExecuteWithRetry at attempt 1
connectionLoop ==
    /\ agent.pc = "loop"
    /\ agent' = IF agent.stopped
                THEN [ agent EXCEPT !.pc = "exited" ]
                ELSE [ agent EXCEPT !.pc = "dial", !.attempt = 1 ]
    /\ UNCHANGED << serverVars, fn >>

\* the REGISTER frame of sendRegisterMessage
RegisterPayload == [ clientID |-> AgentClientID, authToken |-> AgentAuthToken ]

\* Agent.connect called by ExecuteWithRetry, with what ExecuteWithRetry does
\* with its result.  The server accepts: the socket is stored, REGISTER is
\* written, connectionLoop goes on to runConnection, which starts a
\* heartbeatLoop.  The server does not: the dial fails, or the dial succeeds
\* and the REGISTER write fails (the socket is closed and stays in a.conn);
\* the error is of any class; ExecuteWithRetry waits and tries again unless
\* ShouldRetry says no, the attempts are used up or the 30 s context is done.
connect(dialOK, errorType, ctxDone) ==
    /\ agent.pc = "dial"
    /\ IF agent.serverUp
       THEN /\ dialOK /\ errorType = "network" /\ ~ctxDone
            /\ agent' = [ agent EXCEPT !.pc = "read", !.attempt = 0,
                                       !.conn = "open", !.heartbeat = TRUE,
                                       !.register = RegisterPayload ]
       ELSE agent' = [ agent EXCEPT
                !.conn = IF dialOK THEN "dead" ELSE @,
                !.pc = IF RetryAgain(errorType, agent.attempt) /\ ~ctxDone
                       THEN "dial" ELSE "reconnectWait",
                !.attempt = IF RetryAgain(errorType, agent.attempt) /\ ~ctxDone
                            THEN @ + 1 ELSE 0 ]
    /\ UNCHANGED << serverVars, fn >>

\* a connectionLoop that gives up when connectWithRetry fails
reconnectWaitExit ==
    /\ agent.pc = "reconnectWait"
    /\ agent' = [ agent EXCEPT !.pc = "exited" ]
    /\ UNCHANGED << serverVars, fn >>

\* Agent.connectionLoop after connectWithRetry failed: return when stopCh is
\* closed, else back to the top of the loop after ReconnectInterval
reconnectWait ==
    /\ agent.pc = "reconnectWait"
    /\ agent' = [ agent EXCEPT !.pc = IF agent.stopped THEN "exited" ELSE "loop" ]
    /\ UNCHANGED << serverVars, fn >>

\* Agent.runConnection returns: stopCh closed, a.conn nil, or ReadJSON fails
\* on a socket that is closed or broken; connectionLoop is at its top again
runConnection ==
    /\ agent.pc = "read"
    /\ agent.stopped \/ agent.conn # "open"
    /\ agent' = [ agent EXCEPT !.pc = "loop" ]
    /\ UNCHANGED << serverVars, fn >>

\* RequestPayload.GetTargets
GetTargets(targetsJSON) ==
    IF targetsJSON = << >> THEN << >> ELSE << [ URL |-> targetsJSON ] >>

\* Agent.handleRequest: the URL given to http.NewRequest
TargetURL(rq) == GetTargets(rq.targetsJSON)[1].URL

\* Agent.handleRequest: the return statement the handler leaves by
Outcome(rq) ==
    IF rq.fault = "parse" THEN "parse"
    ELSE IF GetTargets(rq.targetsJSON) = << >> THEN "notarget"
    ELSE IF rq.fault = "build" THEN "build"
    ELSE IF rq.fault = "transport" THEN "transport"
    ELSE IF rq.fault = "body" THEN "body"
    ELSE "success"

\* an error response without the error field
sendErrorResponseNoError(msgID) ==
    [ msgID |-> msgID, httpStatus |-> 500, error |-> FALSE ]

\* Agent.sendErrorResponse: the frame it builds
sendErrorResponse(msgID) ==
    [ msgID |-> msgID, httpStatus |-> 500, error |-> TRUE ]

\* Agent.handleRequest up to its call of sendMessageWithRetry: ReadJSON
\* returned a REQUEST frame, the handler runs inline in the read loop
handleRequest(rq) ==
    /\ agent.pc = "read"
    /\ agent.conn = "open"
    /\ ~agent.stopped
    /\ agent.handled < MaxAgentReq
    /\ LET msgID == agent.handled + 1
           outcome == Outcome(rq)
       IN  agent' = [ agent EXCEPT
                !.pc = "send",
                !.attempt = 1,
                !.handled = msgID,
                !.req = [ msgID |-> msgID, fault |-> rq.fault,
                          targetsJSON |-> rq.targetsJSON,
                          urlSuffix |-> rq.urlSuffix,
                          routeMode |-> rq.routeMode ],
                !.dialled = IF outcome \in { "transport", "body", "success" }
                            THEN TargetURL(rq) ELSE << >>,
                !.resp = IF outcome = "success"
                         THEN [ msgID |-> msgID, httpStatus |-> 200,
                                error |-> FALSE ]
                         ELSE sendErrorResponse(msgID) ]
    /\ UNCHANGED << serverVars, fn >>

\* Agent.handlePing up to its call of sendMessageWithRetry: ReadJSON
\* returned a PING frame with timestamp t, the PONG is built with
\* PongPayload{Timestamp: time.Now().UnixMilli()}
agentHandlePing(t, now) ==
    /\ agent.pc = "read"
    /\ agent.conn = "open"
    /\ ~agent.stopped
    /\ agent.handled < MaxAgentReq
    /\ agent' = [ agent EXCEPT !.pc = "send", !.attempt = 1, !.handled = @ + 1,
                               !.req = PingFrame(t), !.resp = PongFrame(now) ]
    /\ UNCHANGED << serverVars, fn >>

\* Agent.sendMessageWithRetry for the response of handleRequest, one attempt
\* of ExecuteWithRetry and what follows it: WriteJSON succeeds on an open
\* socket and the handler returns; it fails (a.conn nil, socket closed, write
\* error, after which the socket stays failed) and ExecuteWithRetry waits for
\* the next attempt or gives up and the handler returns
sendMessageWithRetry(writeOK, errorType, ctxDone) ==
    /\ agent.pc = "send"
    /\ IF agent.conn = "open" /\ writeOK
       THEN /\ errorType = "network" /\ ~ctxDone
            /\ agent' = [ agent EXCEPT !.pc = "read", !.attempt = 0,
                                       !.out = Append(@, agent.resp),
                                       !.req = NoRequest, !.resp = NoResponse,
                                       !.dialled = << >> ]
       ELSE IF RetryAgain(errorType, agent.attempt) /\ ~ctxDone
       THEN agent' = [ agent EXCEPT !.attempt = @ + 1,
                                    !.conn = IF @ = "open" THEN "dead" ELSE @ ]
       ELSE agent' = [ agent EXCEPT !.pc = "read", !.attempt = 0,
                                    !.conn = IF @ = "open" THEN "dead" ELSE @,
                                    !.req = NoRequest, !.resp = NoResponse,
                                    !.dialled = << >> ]
    /\ UNCHANGED << serverVars, fn >>

\* Agent.heartbeatLoop leaves: stopCh is closed, or the pong is overdue or
\* three pings failed and it closes the socket and sets a.conn to nil; the
\* heartbeat loops of earlier connections may still be running
heartbeatLoop(others) ==
    /\ agent.heartbeat
    /\ agent' = [ agent EXCEPT !.heartbeat = others /\ ~agent.stopped,
                               !.conn = "nil" ]
    /\ UNCHANGED << serverVars, fn >>

\* Agent.Stop: stopCh is closed, the socket is closed and a.conn set to nil
Stop ==
    /\ ~agent.stopped
    /\ agent' = [ agent EXCEPT !.stopped = TRUE, !.conn = "nil" ]
    /\ UNCHANGED << serverVars, fn >>

\* the peer closes the agent's socket or the network drops it
ConnectionLost ==
    /\ agent.conn = "open"
    /\ agent' = [ agent EXCEPT !.conn = "dead" ]
    /\ UNCHANGED << serverVars, fn >>

\* the server stops or starts accepting the agent's connections
ServerAccepts(up) ==
    /\ agent.serverUp # up
    /\ agent' = [ agent EXCEPT !.serverUp = up ]
    /\ UNCHANGED << serverVars, fn >>


(***************************************************************************)
(* Calls of the pattern functions (internal/utils/pattern.go)              *)
(***************************************************************************)

\* GetPatternPriority(pattern) and GetPatternPriority(other), as the route
\* sort of the proxy compares the priorities of two patterns
CallGetPatternPriority ==
    /\ fn.op = "input"
    /\ fn' = [ op |-> "GetPatternPriority", pattern |-> fn.pattern,
               other |-> fn.other,
               result |-> GetPatternPriority(fn.pattern),
               resultOther |-> GetPatternPriority(fn.other) ]
    /\ UNCHANGED << serverVars, agent >>

\* MatchPattern(pattern, path)
CallMatchPattern ==
    /\ fn.op = "input"
    /\ fn' = [ op |-> "MatchPattern", pattern |-> fn.pattern, path |-> fn.path,
               result |-> MatchPattern(fn.pattern, fn.path) ]
    /\ UNCHANGED << serverVars, agent >>

\* IsValidPattern(pattern)
CallIsValidPattern ==
    /\ fn.op = "input"
    /\ fn' = [ op |-> "IsValidPattern", pattern |-> fn.pattern,
               result |-> IsValidPattern(fn.pattern) ]
    /\ UNCHANGED << serverVars, agent >>

\* NormalizePattern(pattern), and NormalizePattern of its result
CallNormalizePattern ==
    /\ fn.op \in { "input", "NormalizePattern" }
    /\ fn' = IF fn.op = "input"
             THEN [ op |-> "NormalizePattern", pattern |-> fn.pattern,
                    result |-> NormalizePattern(fn.pattern) ]
             ELSE [ op |-> "NormalizePatternAgain", pattern |-> fn.result,
                    result |-> NormalizePattern(fn.result) ]
    /\ UNCHANGED << serverVars, agent >>


(***************************************************************************)
(* Specifications                                                          *)
(***************************************************************************)

\* connection handling common to every specification
ConnectionStep ==
    \/ \E k \in ConnIds : registerClient(k)
    \/ \E k \in ConnIds : ReaderTop(k)
    \/ \E k \in ConnIds : ReaderError(k)
    \/ \E k \in ConnIds : WriterCtxDone(k)
    \/ \E k \in ConnIds : HandlerExit(k)

\* worker pool steps common to the specifications with connections closing
WorkerStep ==
    \/ \E w \in WorkerIds : WorkerTake(w)
    \/ \E w \in WorkerIds : ExecuteDatabaseUpdate(w)

\* connection manager with the management API: agents connect with any
\* query parameters, operators enable, disable and delete client A
NextConn ==
    \/ \E k \in ConnIds, cid \in QueryClientIds, tok \in QueryTokens, ok \in BOOLEAN :
          HandleWebSocket(k, cid, tok, ok)
    \/ ConnectionStep
    \/ WorkerStep
    \/ \E e \in BOOLEAN : handleUpdateClientEnabled("A", e)
    \/ handleUpdateClientStatusDisconnect("A")
    \/ handleUpdateClientStatusWrite("A")
    \/ handleUpdateClientStatusOnline("A")
    \/ handleDeleteClient("A")

SpecConn == Init /\ [][NextConn]_vars

\* the steps of one SendRequestAndWait call
RequestStep(r) ==
    \/ SRWRegister(r)
    \/ SRWSend(r)
    \/ SRWReceive(r)
    \/ SRWTimeout(r)
    \/ SRWDefer(r)

\* requests through the tunnel: agent A connects once with its credentials,
\* requests for the exact route are dispatched and awaited, the agent answers
\* with RESPONSE frames (any number, at any time), the 30 s sweep runs
NextReq ==
    \/ HandleWebSocket(1, "A", "tA", TRUE)
    \/ ConnectionStep
    \/ WorkerStep
    \/ \E m \in wire : ReaderRead(1, Frame("RESPONSE", m))
    \/ \E ok \in BOOLEAN : WriterSend(1, ok)
    \/ \E w \in WorkerIds : handleResponse(w)
    \/ \E r \in ReqIds : HandleDirectProxyRequest(r, PathUsers)
    \/ \E r \in ReqIds : RequestStep(r)
    \/ Tick(RequestTimeoutTicks + 1)
    \/ cleanupExpiredPending

SpecReq == Init /\ [][NextReq]_vars

\* the Go scheduler runs every runnable goroutine and time passes: a call of
\* SendRequestAndWait that can take a step eventually takes one
FairSpecReq ==
    /\ SpecReq
    /\ WF_vars(Tick(RequestTimeoutTicks + 1))
    /\ \A r \in ReqIds : WF_vars(RequestStep(r))

\* connection slots when every agent connects once
AgentSlots == 1..Cardinality(ClientIds)

\* the proxy front door over any route table: agents connect once with their
\* credentials, operators enable and disable clients, one request comes in
NextProxy ==
    \/ \E k \in AgentSlots, c \in ClientIds : HandleWebSocket(k, c, AuthTokenOf(c), TRUE)
    \/ \E k \in AgentSlots : registerClient(k)
    \/ \E c \in ClientIds, e \in BOOLEAN : handleUpdateClientEnabled(c, e)
    \/ \E path \in Paths : HandleDirectProxyRequest(1, path)
    \/ \E suffix \in Paths \cup { << >> } : HandleProxyRequest(1, suffix)

SpecProxy == InitProxy /\ [][NextProxy]_vars

\* connection slots when an agent connects and reconnects once
ReconnectSlots == { k \in ConnIds : k <= 2 }

\* frames handed to SendToClient
SendFrames == { RegisterAckFrame(TRUE), RegisterAckFrame(FALSE) }

\* SendToClient and the writers: agent A connects (and reconnects), frames are
\* sent to A and to B, which never connects, the writers drain the queues
\* and send pings, sockets fail
NextSend ==
    \/ \E k \in ReconnectSlots : HandleWebSocket(k, "A", "tA", TRUE)
    \/ ConnectionStep
    \/ \E c \in ClientIds, f \in SendFrames : CallSendToClient(c, f)
    \/ \E k \in ConnIds, ok \in BOOLEAN : WriterSend(k, ok)
    \/ \E k \in ConnIds : WriterTick(k)

SpecSend == Init /\ [][NextSend]_vars
\* tokens of the REGISTER frames an agent sends: the one of its record,
\* another one, none
RegisterTokens == { "tA", "tB", "" }

\* the REGISTER handshake: agent A connects once with its credentials and
\* sends REGISTER frames with any token, the worker pool handles them, the
\* writer sends the acknowledgements
NextRegister ==
    \/ HandleWebSocket(1, "A", "tA", TRUE)
    \/ ConnectionStep
    \/ WorkerStep
    \/ \E tok \in RegisterTokens : ReaderRead(1, RegisterFrame(tok))
    \/ \E w \in WorkerIds : handleRegister(w)
    \/ \E ok \in BOOLEAN : WriterSend(1, ok)

SpecRegister == Init /\ [][NextRegister]_vars
\* the liveness checker: agent A connects (and reconnects), sends PING
\* frames or stays silent, the worker pool answers them, time passes and the
\* health-check ticker fires
NextHealth ==
    \/ \E k \in ReconnectSlots : HandleWebSocket(k, "A", "tA", TRUE)
    \/ ConnectionStep
    \/ \E k \in ConnIds : ReaderRead(k, PingFrame(1))
    \/ \E w \in WorkerIds : WorkerTake(w)
    \/ \E w \in WorkerIds : handlePing(w, 1)
    \/ \E k \in ConnIds : WriterSend(k, TRUE)
    \/ PingIntervalPasses
    \/ performHealthCheck

SpecHealth == Init /\ [][NextHealth]_vars
\* the steps of the clientReader goroutine of a connection
ReaderStep(k) ==
    \/ ReaderTop(k)
    \/ ReaderRead(k, PingFrame(1))
    \/ ReaderError(k)

\* a connection ending: agent A connects once and sends PING frames, the
\* writer sends pings, the socket fails on read and on write, the liveness
\* checker runs, the operator disconnects A, the manager is closed, the
\* worker pool executes the status updates
NextExit ==
    \/ HandleWebSocket(1, "A", "tA", TRUE)
    \/ \E k \in ConnIds : registerClient(k)
    \/ \E k \in ConnIds : ReaderStep(k)
    \/ \E k \in ConnIds : WriterTick(k)
    \/ \E k \in ConnIds, ok \in BOOLEAN : WriterSend(k, ok)
    \/ \E k \in ConnIds : WriterCtxDone(k)
    \/ \E k \in ConnIds : HandlerExit(k)
    \/ WorkerStep
    \/ \E w \in WorkerIds : handlePing(w, 1)
    \/ PingIntervalPasses
    \/ performHealthCheck
    \/ handleUpdateClientStatusDisconnect("A")
    \/ handleUpdateClientStatusWrite("A")
    \/ Close

SpecExit == Init /\ [][NextExit]_vars

\* ReadMessage returns within its 60 s read deadline, a select with a ready
\* ctx.Done() case takes it sooner or later, and handleConnection goes on
\* after wg.Wait()
FairSpecExit ==
    /\ SpecExit
    /\ \A k \in ConnIds : WF_vars(ReaderStep(k))
    /\ \A k \in ConnIds : WF_vars(WriterCtxDone(k))
    /\ \A k \in ConnIds : WF_vars(HandlerExit(k))

\* the steps of the agent's connectionLoop goroutine
AgentStep ==
    \/ Start
    \/ connectionLoop
    \/ \E dialOK, ctxDone \in BOOLEAN, e \in ErrorTypes : connect(dialOK, e, ctxDone)
    \/ reconnectWait
    \/ runConnection
    \/ \E writeOK, ctxDone \in BOOLEAN, e \in ErrorTypes :
          sendMessageWithRetry(writeOK, e, ctxDone)

\* the agent process and its surroundings: the server sends REQUEST frames,
\* accepts connections or not, sockets break, heartbeats give up, the
\* operator stops the process
NextAgent ==
    \/ AgentStep
    \/ \E rq \in AgentRequests : handleRequest(rq)
    \/ \E others \in BOOLEAN : heartbeatLoop(others)
    \/ ConnectionLost
    \/ \E up \in BOOLEAN : ServerAccepts(up)
    \/ Stop

SpecAgent == Init /\ [][NextAgent]_vars

\* the Go scheduler runs the connectionLoop goroutine and its timers fire
FairSpecAgent == SpecAgent /\ WF_vars(AgentStep)

\* PING and PONG on both sides: the agent connects to a server that accepts
\* it and answers the PING frames it reads, its writes succeed or fail; agent
\* A's connection at the server delivers PING frames, the worker pool answers
\* them and the writer sends the answers
NextPing ==
    \/ Start
    \/ connectionLoop
    \/ connect(TRUE, "network", FALSE)
    \/ runConnection
    \/ \E t, now \in Timestamps : agentHandlePing(t, now)
    \/ \E writeOK, ctxDone \in BOOLEAN, e \in ErrorTypes :
          sendMessageWithRetry(writeOK, e, ctxDone)
    \/ HandleWebSocket(1, "A", "tA", TRUE)
    \/ registerClient(1)
    \/ ReaderTop(1)
    \/ \E t \in Timestamps : ReaderRead(1, PingFrame(t))
    \/ \E w \in WorkerIds : WorkerTake(w)
    \/ \E w \in WorkerIds, now \in Timestamps : handlePing(w, now)
    \/ \E ok \in BOOLEAN : WriterSend(1, ok)

SpecPing == Init /\ [][NextPing]_vars

\* priorities of patterns, compared with the patterns of the test
NextPriority == CallGetPatternPriority

SpecPriority == InitPriority /\ [][NextPriority]_vars

\* patterns matched against paths
NextMatch == CallMatchPattern

SpecMatch == InitMatch /\ [][NextMatch]_vars

\* validation and normalisation of strings
NextValidate ==
    \/ CallIsValidPattern
    \/ CallNormalizePattern

SpecValidate == InitValidate /\ [][NextValidate]_vars

(***************************************************************************)
(* Properties                                                              *)
(***************************************************************************)

\* C1: when a connection is registered for a client_id that already has a
\* record in the connection table, the record it replaces has been evicted:
\* its context is cancelled by the time the new record is inserted.
C1_PriorEvicted ==
    [][ \A k \in ConnIds :
          ( /\ conns[k].pc = "upgraded"
            /\ conns'[k].pc = "running"
            /\ clients[conns[k].clientID] # 0 )
          => conns'[clients[conns[k].clientID]].cancelled ]_vars

\* C2: a pending entry has one outcome: once SendRequestAndWait has chosen
\* between the delivered response and the timeout/cancellation, the outcome
\* and the response it returns never change (no second delivery is
\* observed), and nothing is delivered into the result slot after the call
\* has returned.
C2_SingleOutcome ==
    [][ \A r \in ReqIds :
          /\ reqs[r].outcome # "none" =>
                /\ reqs'[r].outcome = reqs[r].outcome
                /\ reqs'[r].response = reqs[r].response
          /\ reqs[r].pc = "done" =>
                Len(reqs'[r].resultCh) <= Len(reqs[r].resultCh) ]_vars

\* a call returns the first response while a second one sits in the slot
C2_Witness ==
    \E r \in ReqIds :
        /\ reqs[r].pc = "returning"
        /\ reqs[r].outcome = "response"
        /\ reqs[r].resultCh # << >>

\* C3: a RESPONSE frame read from an agent socket while the pending table
\* holds an entry for its msg_id with an empty result slot is the response
\* SendRequestAndWait returns: the waiter never returns a timeout while its
\* entry is in the table and such a frame is in the worker pool or in the
\* result slot.
C3_ResponseObserved ==
    [][ \A r \in ReqIds :
          ( /\ reqs[r].pc = "waiting"
            /\ reqs'[r].outcome = "timeout"
            /\ r \in pending )
          => /\ reqs[r].resultCh = << >>
             /\ \A i \in DOMAIN taskQueue :
                   ~(taskQueue[i].kind = "msg" /\ taskQueue[i].frame = Frame("RESPONSE", r))
             /\ \A w \in WorkerIds :
                   ~(workers[w].kind = "msg" /\ workers[w].frame = Frame("RESPONSE", r)) ]_vars

\* C4: the teardown of a connection that is no longer its client's record
\* in the connection table leaves the record of the newer connection alone.
C4_TeardownKeepsNewer ==
    [][ \A k \in ConnIds :
          ( /\ conns[k].pc = "running"
            /\ conns'[k].pc = "closed"
            /\ clients[conns[k].clientID] # k )
          => clients'[conns[k].clientID] = clients[conns[k].clientID] ]_vars

\* C5: a connection is upgraded, and a record for it inserted in the
\* connection table, only for an attempt with non-empty client_id and token
\* whose client record existed, was enabled and carried the same token; a
\* rejected attempt never has a record in the table.
C5_AuthGate ==
    \A k \in ConnIds :
        /\ conns[k].pc \in { "upgraded", "running", "closed" } =>
              /\ conns[k].snap.idOK
              /\ conns[k].snap.tokenOK
              /\ conns[k].snap.exists
              /\ conns[k].snap.match
              /\ conns[k].snap.enabled
        /\ \A c \in ClientIds :
              clients[c] = k => conns[k].pc = "running" /\ conns[k].clientID = c

\* an attempt for a disabled client with the right token was rejected while
\* another connection is registered
C5_Witness ==
    \E k, j \in ConnIds :
        /\ conns[k].pc = "rejected"
        /\ conns[k].snap.match
        /\ ~conns[k].snap.enabled
        /\ conns[j].pc = "running"
        /\ clients[conns[j].clientID] = j

\* C6: a request whose wait ended by timeout is answered with HTTP 504.
C6_Timeout504 ==
    \A r \in ReqIds :
        (reqs[r].pc = "done" /\ reqs[r].outcome = "timeout") => reqs[r].httpStatus = 504

C8_HighestPriority ==
    [][ \A r \in ReqIds :
          (reqs[r].pc = "idle" /\ reqs'[r].pc = "forward") =>
             LET path == reqs'[r].path
                 chosen == dbRoutes[reqs'[r].route].pattern
                 av == { i \in DOMAIN dbRoutes :
                           /\ dbRoutes[i].enabled
                           /\ MatchPattern(dbRoutes[i].pattern, path)
                           /\ clients[dbRoutes[i].clientID] # 0
                           /\ dbClients[dbRoutes[i].clientID].exists
                           /\ dbClients[dbRoutes[i].clientID].enabled }
             IN  \A j \in av :
                    /\ GetPatternPriority(chosen) >= GetPatternPriority(dbRoutes[j].pattern)
                    /\ (path = PathUsers /\ dbRoutes[j].pattern = PatSingle) =>
                          chosen # PatDouble ]_vars

\* /api/v1/users went to the route /api/*/users while the route
\* /api/**/users had a connected and enabled client
C8_Witness ==
    \E r \in ReqIds :
        /\ reqs[r].pc = "forward"
        /\ reqs[r].path = PathUsers
        /\ dbRoutes[reqs[r].route].pattern = PatSingle
        /\ \E j \in DOMAIN dbRoutes :
              /\ dbRoutes[j].pattern = PatDouble
              /\ dbRoutes[j].enabled
              /\ clients[dbRoutes[j].clientID] # 0
              /\ dbClients[dbRoutes[j].clientID].enabled

\* C9: every call of SendRequestAndWait eventually returns and when it has
\* returned its msg_id is not in the pending table: from some point on no
\* call is in progress and the pending table is empty.
C9_Returns ==
    /\ <>[](\A r \in ReqIds : reqs[r].pc \in { "idle", "done" } /\ r \notin pending)
    /\ [](\A r \in ReqIds : reqs[r].pc = "done" => r \notin pending)

\* a call returned by timeout and the pending table is empty
C9_Witness ==
    \E r \in ReqIds :
        /\ reqs[r].pc = "done"
        /\ reqs[r].outcome = "timeout"
        /\ pending = {}

\* C10: a management write that flips a client's enabled flag to false while
\* the client has a record in the connection table cancels that connection.
C10_DisableCloses ==
    [][ \A c \in ClientIds :
          ( /\ dbClients[c].enabled
            /\ ~dbClients'[c].enabled
            /\ clients[c] # 0 )
          => conns'[clients[c]].cancelled ]_vars

\* C11: for every REQUEST the agent handles it emits at most one RESPONSE
\* frame; the handler leaves by one call of sendMessageWithRetry on every
\* path, so exactly one frame is written when the socket write succeeds (the
\* socket is open before and after the step) and none is written by a failed
\* attempt; the frame carries the msg_id of the REQUEST and, on every path
\* other than success, http_status 500 and an error.
C11_OneResponse ==
    /\ [](\A i, j \in DOMAIN agent.out :
            agent.out[i].msgID = agent.out[j].msgID => i = j)
    /\ [](agent.pc = "send" =>
            /\ agent.resp.msgID = agent.req.msgID
            /\ agent.req.msgID = agent.handled
            /\ \A i \in DOMAIN agent.out : agent.out[i].msgID < agent.handled
            /\ Outcome(agent.req) # "success" =>
                  agent.resp.httpStatus = 500 /\ agent.resp.error)
    /\ [][ /\ agent.out' # agent.out =>
                agent.pc = "send" /\ agent.out' = Append(agent.out, agent.resp)
           /\ ( agent.pc = "send" /\ agent.conn = "open" /\ agent'.conn = "open"
                /\ agent'.serverUp = agent.serverUp /\ agent' # agent ) =>
                agent.out' = Append(agent.out, agent.resp) /\ agent'.pc = "read"
         ]_vars

\* a failure and a success have both been answered
C11_Witness ==
    /\ Len(agent.out) = 2
    /\ agent.out[1].error /\ agent.out[1].httpStatus = 500
    /\ ~agent.out[2].error /\ agent.out[2].httpStatus = 200

\* C12: the URL the agent dials is targets_json with url_suffix appended in
\* original-path mode and targets_json itself in path-transform mode.
C12_DialledURL ==
    (agent.pc = "send" /\ agent.dialled # << >>) =>
        agent.dialled = IF agent.req.routeMode = RouteModeOriginalPath
                        THEN agent.req.targetsJSON \o agent.req.urlSuffix
                        ELSE agent.req.targetsJSON

\* after a failure the agent is waiting to reconnect, at the top of its
\* connection loop, or in the read loop with a socket that is gone
AgentFailed ==
    \/ agent.pc \in { "reconnectWait", "loop" }
    \/ agent.pc \in { "read", "send" } /\ agent.conn # "open"

\* the agent holds an open socket on which it sent REGISTER with the
\* client_id and auth_token of its configuration
Registered ==
    /\ agent.pc \in { "read", "send" }
    /\ agent.conn = "open"
    /\ agent.register = [ clientID |-> AgentClientID, authToken |-> AgentAuthToken ]

\* C13: after every failure of its connection (dial failure, read error,
\* heartbeat close) the agent eventually dials again unless it is stopped,
\* however many attempts came before; and it is never the case that from some
\* point on the server accepts connections, the agent is not stopped and the
\* agent is not registered with its client_id and auth_token.
C13_Reconnects ==
    /\ [](AgentFailed => <>(agent.pc = "dial" \/ agent.stopped))
    /\ []<>(~agent.serverUp \/ agent.stopped \/ Registered)

\* the agent is registered again: the response of its first REQUEST could
\* not be written because the socket was gone, and it has an open socket
C13_Witness ==
    /\ Registered
    /\ agent.pc = "read"
    /\ agent.handled = 1
    /\ agent.out = << >>

\* the class of a pattern in the order exact (4) > single-wildcard (3) >
\* double-wildcard (2) > prefix or suffix (1); 0 for a pattern that has "**"
\* and also starts or ends with "*", which belongs to two classes
Specificity(pattern) ==
    IF ~StrContains(pattern, Star) THEN 4
    ELSE IF StrContains(pattern, DoubleStar)
         THEN IF HasSuffix(pattern, Star) \/ HasPrefix(pattern, Star) THEN 0 ELSE 2
    ELSE IF HasSuffix(pattern, Star) \/ HasPrefix(pattern, Star) THEN 1
    ELSE 3

\* C14: of two patterns of different classes, the one of the more specific
\* class (exact > single-wildcard > double-wildcard > prefix/suffix) has the
\* strictly greater priority.
C14_PriorityOrder ==
    fn.op = "GetPatternPriority" =>
        LET c1 == Specificity(fn.pattern)
            c2 == Specificity(fn.other)
        IN  /\ (c1 > c2 /\ c2 > 0) => fn.result > fn.resultOther
            /\ (c2 > c1 /\ c1 > 0) => fn.resultOther > fn.result

\* the "/"-separated segments of a path or pattern
SegsOf(str) == StrSplit(str, Slash)

\* a pattern L/**/R with literal L and R matches a path made of the segments
\* of L, any number of whole segments, and the segments of R
WholeSegmentsMatch(pattern, path) ==
    LET pp    == SegsOf(pattern)
        k     == CHOOSE i \in 1..Len(pp) : pp[i] = DoubleStar
        left  == SubSeq(pp, 1, k - 1)
        right == SubSeq(pp, k + 1, Len(pp))
        ps    == SegsOf(path)
    IN  /\ Len(ps) >= Len(left) + Len(right)
        /\ SubSeq(ps, 1, Len(left)) = left
        /\ SubSeq(ps, Len(ps) - Len(right) + 1, Len(ps)) = right

\* C15: a pattern L/**/R matches a path exactly when the path is the segments
\* of L, zero or more whole segments, and the segments of R; L and R never
\* match part of a segment.
C15_WholeSegments ==
    (fn.op = "MatchPattern" /\ fn.pattern = MatchDouble) =>
        (fn.result <=> WholeSegmentsMatch(fn.pattern, fn.path))

\* C16: a prefix pattern (its only "*" is its last character) matches a path
\* with a different number of segments only if the path starts with the
\* pattern's text up to the "*".
C16_PrefixLiteral ==
    ( /\ fn.op = "MatchPattern"
      /\ HasSuffix(fn.pattern, Star) /\ StrCount(fn.pattern, Star) = 1
      /\ Len(SegsOf(fn.pattern)) # Len(SegsOf(fn.path))
      /\ fn.result ) =>
        HasPrefix(fn.path, TrimSuffix(fn.pattern, Star))

\* a segment pattern matches a segment when each "*" stands for some text,
\* possibly empty, and the fixed texts are found in order
RECURSIVE GlobMatch(_, _)
GlobMatch(pat, seg) ==
    IF pat = << >> THEN seg = << >>
    ELSE IF pat[1] = "*"
         THEN \/ GlobMatch(Tail(pat), seg)
              \/ seg # << >> /\ GlobMatch(pat, Tail(seg))
    ELSE seg # << >> /\ seg[1] = pat[1] /\ GlobMatch(Tail(pat), Tail(seg))

\* C17: for a pattern without "**" and a path with the same number of
\* segments, MatchPattern is true exactly when every segment of the path
\* matches the segment pattern at its position.
C17_SegmentWise ==
    ( /\ fn.op = "MatchPattern"
      /\ ~StrContains(fn.pattern, DoubleStar)
      /\ Len(SegsOf(fn.pattern)) = Len(SegsOf(fn.path)) ) =>
        (fn.result <=>
            \A i \in 1..Len(SegsOf(fn.pattern)) :
                GlobMatch(SegsOf(fn.pattern)[i], SegsOf(fn.path)[i]))

\* C18: NormalizePattern applied to its own result returns it unchanged, and
\* every result starts with "/" and, unless it is "/", does not end with "/".
C18_Idempotent ==
    /\ fn.op = "NormalizePatternAgain" => fn.result = fn.pattern
    /\ fn.op \in { "NormalizePattern", "NormalizePatternAgain" } =>
          /\ HasPrefix(fn.result, Slash)
          /\ fn.result # Slash => ~HasSuffix(fn.result, Slash)

\* C19: GetPatternPriority never returns a value below 1.
C19_PriorityFloor ==
    fn.op = "GetPatternPriority" => fn.result >= 1 /\ fn.resultOther >= 1

\* C20: IsValidPattern is false exactly for the empty string, a string whose
\* first character is not "/", and a string with two adjacent "/".
C20_Validator ==
    fn.op = "IsValidPattern" =>
        (fn.result <=>
            ~ \/ Len(fn.pattern) = 0
              \/ fn.pattern[1] # "/"
              \/ \E i \in 1..(Len(fn.pattern) - 1) :
                    fn.pattern[i] = "/" /\ fn.pattern[i + 1] = "/")

\* a string with "**" was accepted
C20_Witness ==
    /\ fn.op = "IsValidPattern"
    /\ fn.result
    /\ StrContains(fn.pattern, DoubleStar)

\* C24: the entry of a pending request is out of the pending table by the
\* time its waiter has observed a result, and from then on no frame for the
\* same msg_id is in the result slot.
C24_RemovedBeforeObserved ==
    \A r \in ReqIds :
        reqs[r].outcome = "response" =>
            /\ r \notin pending
            /\ reqs[r].resultCh = << >>

\* C26: the periodic sweep removes the entry of a waiting request only when
\* the deadline of that request has passed, and it fails the waiter with a
\* 504 response: the free result slot of the evicted entry holds it.
C26_SweepFails504 ==
    [][ \A r \in ReqIds :
          ( /\ r \in pending
            /\ r \notin pending'
            /\ reqs[r].pc # "returning" )
          => /\ reqs[r].age >= DeadlineTicks
             /\ reqs[r].resultCh = << >> =>
                   reqs'[r].resultCh = << [ status |-> 504 ] >> ]_vars

\* C21: SendToClient returns at once: with the "not found" error exactly
\* when the client_id has no record in the connection table, with the
\* "queue full" error exactly when the record's send queue is at capacity,
\* and otherwise it appends the frame, and only that, to that queue; on an
\* error no queue changes. No send queue ever holds more than its capacity.
C21_SendToClient ==
    /\ [] \A k \in ConnIds : Len(conns[k].sendQueue) <= SendQueueSize
    /\ [][ (fn' # fn /\ fn'.op = "SendToClient") =>
             LET k == clients[fn'.clientID]
             IN  /\ fn'.err \in { "not found", "queue full", "" }
                 /\ fn'.err = "not found" <=> k = 0
                 /\ fn'.err = "queue full" <=>
                       (k # 0 /\ Len(conns[k].sendQueue) = SendQueueSize)
                 /\ fn'.err = "" =>
                       conns' = [ conns EXCEPT ![k].sendQueue = Append(@, fn'.frame) ]
                 /\ fn'.err # "" => conns' = conns ]_vars

\* a send was refused because the queue of the client's record was full
C21_Witness ==
    /\ fn.op = "SendToClient"
    /\ fn.err = "queue full"
    /\ clients[fn.clientID] # 0
    /\ Len(conns[clients[fn.clientID]].sendQueue) = SendQueueSize

\* C30: a full send queue only drops what cannot be enqueued: a writer
\* whose connection is not cancelled does not stop, and the connection is not
\* cancelled, in a step that finds the queue full and writes nothing from it
\* (the ping of the ticker that cannot be enqueued is dropped).
C30_OverflowDrops ==
    [][ \A k \in ConnIds :
          ( /\ conns[k].pc = "running"
            /\ conns[k].writer = "run"
            /\ ~conns[k].cancelled
            /\ Len(conns[k].sendQueue) >= SendQueueSize
            /\ conns'[k].sendQueue = conns[k].sendQueue
            /\ conns'[k].reader = conns[k].reader )
          => /\ conns'[k].writer = "run"
             /\ ~conns'[k].cancelled ]_vars

\* C22: when a REGISTER frame whose auth_token differs from the token of
\* the client record has been handled, the connection it came from is closed
\* (its context is cancelled), and the frame has not marked the client
\* online.
C22_MismatchCloses ==
    [][ \A w \in WorkerIds :
          ( /\ workers[w].kind = "msg"
            /\ workers[w].frame.op = "REGISTER"
            /\ workers'[w] = NoTask
            /\ workers[w].frame.authToken # dbClients[workers[w].client].authToken )
          => /\ conns'[workers[w].conn].cancelled
             /\ dbClients' = dbClients ]_vars

\* C25: a connection is its client's record in the connection table only
\* after its REGISTER handshake succeeded, and a REQUEST frame is enqueued
\* only for a connection whose REGISTER handshake succeeded.
C25_RegisteredFirst ==
    \A k \in ConnIds :
        /\ (conns[k].pc = "running" /\ clients[conns[k].clientID] = k)
              => conns[k].registered
        /\ (\E i \in DOMAIN conns[k].sendQueue : conns[k].sendQueue[i].op = "REQUEST")
              => conns[k].registered

\* C27: a run of the liveness checker cancels every running connection
\* last seen more than 3 ping intervals ago and no connection last seen at
\* most 3 ping intervals ago; every frame read from a connection sets its
\* last_seen to the time of the read, whatever the backlog of the worker pool.
C27_HealthCheck ==
    [][ /\ performHealthCheck =>
             \A k \in ConnIds :
                conns[k].pc = "running" =>
                   /\ conns[k].lastSeen > HealthTimeoutTicks => conns'[k].cancelled
                   /\ (conns[k].lastSeen <= HealthTimeoutTicks /\ ~conns[k].cancelled)
                         => ~conns'[k].cancelled
        /\ \A k \in ConnIds :
              ReaderRead(k, PingFrame(1)) => conns'[k].lastSeen = 0 ]_vars

\* C28: when the handler of a connection exits, the client_id is removed
\* from the connection table and the write of the status "offline" is on its
\* way: the status update is in the queue of the worker pool.
C28_OfflineQueued ==
    [][ \A k \in ConnIds :
          (conns[k].pc = "running" /\ conns'[k].pc = "closed")
          => /\ clients'[conns[k].clientID] = 0
             /\ \E i \in DOMAIN taskQueue' :
                   taskQueue'[i] = [ kind |-> "db", client |-> conns[k].clientID ] ]_vars

\* C29: a running connection whose context is cancelled, by whichever
\* cause, ends: its reader and its writer have returned, the handler has
\* closed the socket and the connection is not the record of its client_id
\* in the connection table.
C29_CancelledEnds ==
    \A k \in ConnIds :
        (conns[k].pc = "running" /\ conns[k].cancelled)
           ~> ( /\ conns[k].pc = "closed"
                /\ conns[k].reader = "done"
                /\ conns[k].writer = "done"
                /\ clients[conns[k].clientID] # k )

\* a connection that was silent for more than 3 ping intervals has ended
\* and is out of the table
C29_Witness ==
    \E k \in ConnIds :
        /\ conns[k].pc = "closed"
        /\ conns[k].cancelled
        /\ conns[k].reader = "done"
        /\ conns[k].writer = "done"
        /\ conns[k].lastSeen > HealthTimeoutTicks
        /\ clients[conns[k].clientID] = 0

\* C23: a PING frame with timestamp T is answered with a PONG frame
\* carrying T, by the server (the PONG it enqueues for the client) and by the
\* agent (the PONG it is about to write).
C23_PongEchoes ==
    /\ [](( /\ agent.pc = "send"
            /\ "timestamp" \in DOMAIN agent.req )
          => agent.resp = PongFrame(agent.req.timestamp))
    /\ [][ \A w \in WorkerIds :
             ( /\ workers[w].kind = "msg"
               /\ workers[w].frame.op = "PING"
               /\ "timestamp" \in DOMAIN workers[w].frame
               /\ workers'[w] = NoTask
               /\ SendToClientErr(conns, workers[w].client) = "" )
             => LET q == conns'[clients[workers[w].client]].sendQueue
                IN  q[Len(q)] = PongFrame(workers[w].frame.timestamp) ]_vars

\* C31: every frame the read loop reads is handled: its task is queued
\* for the worker pool or, when the queue is full, executed by the read loop
\* itself (the REGISTER frame is answered in the same step); it is never
\* discarded.
C31_FrameHandled ==
    [][ \A tok \in RegisterTokens :
          ReaderRead(1, RegisterFrame(tok))
          => \/ /\ Len(taskQueue') = Len(taskQueue) + 1
                /\ taskQueue'[Len(taskQueue')].frame = RegisterFrame(tok)
             \/ /\ Len(conns'[1].sendQueue) = Len(conns[1].sendQueue) + 1
                /\ conns'[1].sendQueue[Len(conns'[1].sendQueue)].op = "REGISTER_ACK"
      ]_vars

\* C32: when Manager.Close returns, no connection has a reader or writer
\* loop still running: every connection that was upgraded has ended.
C32_CloseWaits ==
    [][ Close => \A k \in ConnIds :
                    /\ conns'[k].pc \notin { "upgraded", "running" }
                    /\ conns'[k].reader \in { "none", "done" }
                    /\ conns'[k].writer \in { "none", "done" } ]_vars

(***************************************************************************)
(* The agent's connection, step by step: the dial, the REGISTER write, the *)
(* heartbeat loops with their ping writes, and the frames of the read loop *)
(***************************************************************************)

\* the heartbeat loops that are running
RunningBeats == { i \in 1..MaxHeartbeats : agent.beats[i].on }

\* Agent.connect up to sendRegisterMessage: the dial (which succeeds here),
\* a.conn = conn, lastPongTime = time.Now()
connectDial ==
    /\ agent.pc = "dial"
    /\ agent' = [ agent EXCEPT !.pc = "register", !.conn = "open",
                               !.pongAge = 0, !.ack = "none", !.writers = {} ]
    /\ UNCHANGED << serverVars, fn >>

\* Agent.sendRegisterMessage enters conn.WriteJSON(msg): writeMu is not taken
sendRegisterMessage ==
    /\ agent.pc = "register"
    /\ agent' = [ agent EXCEPT !.pc = "registering",
                               !.writers = @ \cup { ConnectWriter } ]
    /\ UNCHANGED << serverVars, fn >>

\* Agent.sendRegisterMessage returns and connect with it: nil right after the
\* write, connectionLoop goes on to runConnection; on a write error the socket
\* is closed and connectWithRetry fails
sendRegisterMessageDone(writeOK) ==
    /\ agent.pc = "registering"
    /\ agent' = IF writeOK /\ agent.conn = "open"
                THEN [ agent EXCEPT !.pc = "run", !.attempt = 0,
                                    !.register = RegisterPayload,
                                    !.writers = @ \ { ConnectWriter } ]
                ELSE [ agent EXCEPT !.pc = "reconnectWait", !.attempt = 0,
                                    !.conn = IF @ = "open" THEN "dead" ELSE @,
                                    !.writers = @ \ { ConnectWriter } ]
    /\ UNCHANGED << serverVars, fn >>

\* Agent.runConnection, its first statements: a.wg.Add(1); go a.heartbeatLoop()
\* (consecutiveFailures := 0), then the read loop
runConnectionStart ==
    /\ agent.pc = "run"
    /\ RunningBeats # 1..MaxHeartbeats
    /\ LET i == CHOOSE j \in 1..MaxHeartbeats :
                  /\ ~agent.beats[j].on
                  /\ \A l \in 1..MaxHeartbeats : ~agent.beats[l].on => j <= l
       IN  agent' = [ agent EXCEPT
                !.pc = "read", !.heartbeat = TRUE,
                !.beats[i] = [ on |-> TRUE, failures |-> 0, writing |-> FALSE ] ]
    /\ UNCHANGED << serverVars, fn >>

\* one ping interval passes without a PONG being handled
AgentPingIntervalPasses ==
    /\ agent.pc # "start"
    /\ agent.pongAge <= PingTimeoutTicks + 1
    /\ agent' = [ agent EXCEPT !.pongAge = @ + 1 ]
    /\ UNCHANGED << serverVars, fn >>

\* heartbeat loop i leaves after closing the socket: a.conn.Close(); a.conn = nil
BeatCloses(i) ==
    [ agent EXCEPT !.conn = "nil", !.beats[i] = NoBeat,
                   !.heartbeat = (RunningBeats # { i }) ]

\* Agent.heartbeatLoop, a tick of loop i: the pong is overdue
\* (time.Since(lastPong) > a.config.PingTimeout()) and the loop closes the
\* socket and returns; else sendPing, whose sendMessageWithRetry fails at
\* once when a.conn is nil, and else takes writeMu and enters conn.WriteJSON
heartbeatTick(i) ==
    /\ agent.beats[i].on
    /\ ~agent.beats[i].writing
    /\ ~agent.stopped
    /\ IF agent.pongAge > PingTimeoutTicks
       THEN agent' = BeatCloses(i)
       ELSE IF agent.conn = "nil"
       THEN agent' = IF agent.beats[i].failures + 1 >= MaxPingFailures
                     THEN BeatCloses(i)
                     ELSE [ agent EXCEPT !.beats[i].failures = @ + 1 ]
       ELSE /\ agent.writeMu = NoWriter
            /\ agent' = [ agent EXCEPT !.beats[i].writing = TRUE,
                                       !.writeMu = HeartbeatWriter(i),
                                       !.writers = @ \cup { HeartbeatWriter(i) } ]
    /\ UNCHANGED << serverVars, fn >>

\* Agent.sendPing of loop i returns, writeMu is released: the write succeeded
\* and consecutiveFailures = 0; it failed, consecutiveFailures++, and at
\* maxFailures the loop closes the socket and returns
sendPing(i, writeOK) ==
    /\ agent.beats[i].on
    /\ agent.beats[i].writing
    /\ LET a == [ agent EXCEPT !.writeMu = NoWriter,
                               !.writers = @ \ { HeartbeatWriter(i) },
                               !.beats[i].writing = FALSE ]
       IN  agent' =
             IF writeOK /\ agent.conn = "open"
             THEN [ a EXCEPT !.beats[i].failures = 0 ]
             ELSE IF agent.beats[i].failures + 1 >= MaxPingFailures
             THEN [ a EXCEPT !.conn = "nil", !.beats[i] = NoBeat,
                             !.heartbeat = (RunningBeats # { i }) ]
             ELSE [ a EXCEPT !.beats[i].failures = @ + 1,
                             !.conn = IF @ = "open" THEN "dead" ELSE @ ]
    /\ UNCHANGED << serverVars, fn >>

\* Agent.handlePong: ReadJSON returned a PONG frame, lastPongTime = time.Now()
handlePong ==
    /\ agent.pc = "read"
    /\ agent.conn = "open"
    /\ ~agent.stopped
    /\ agent.handled < MaxAgentReq
    /\ agent' = [ agent EXCEPT !.pongAge = 0, !.handled = @ + 1 ]
    /\ UNCHANGED << serverVars, fn >>

\* Agent.handleMessage, default branch: ReadJSON returned a REGISTER_ACK
\* frame, for which there is no case; "Unknown operation type" is logged and
\* the read loop goes on
agentHandleMessageDefault(success) ==
    /\ agent.pc = "read"
    /\ agent.conn = "open"
    /\ ~agent.stopped
    /\ agent.ack = "none"
    /\ agent' = [ agent EXCEPT !.ack = IF success THEN "ok" ELSE "refused" ]
    /\ UNCHANGED << serverVars, fn >>

\* Agent.sendMessageWithRetry of the read loop takes writeMu and enters
\* conn.WriteJSON (a.conn is not nil)
sendMessageWithRetryLock ==
    /\ agent.pc = "send"
    /\ agent.conn # "nil"
    /\ agent.writeMu = NoWriter
    /\ agent' = [ agent EXCEPT !.pc = "sending", !.writeMu = ReaderWriter,
                               !.writers = @ \cup { ReaderWriter } ]
    /\ UNCHANGED << serverVars, fn >>

\* Agent.sendMessageWithRetry of the read loop returns, writeMu is released:
\* the frame is written, or the write failed and the handler gives up
sendMessageWithRetryUnlock(writeOK) ==
    /\ agent.pc = "sending"
    /\ agent' = [ agent EXCEPT
            !.pc = "read", !.attempt = 0, !.writeMu = NoWriter,
            !.writers = @ \ { ReaderWriter },
            !.out = IF writeOK /\ agent.conn = "open"
                    THEN Append(@, agent.resp) ELSE @,
            !.conn = IF writeOK \/ @ # "open" THEN @ ELSE "dead",
            !.req = NoRequest, !.resp = NoResponse, !.dialled = << >> ]
    /\ UNCHANGED << serverVars, fn >>

NextSteps ==
    \/ Start
    \/ connectionLoop
    \/ connectDial
    \/ sendRegisterMessage
    \/ \E ok \in BOOLEAN : sendRegisterMessageDone(ok)
    \/ reconnectWait
    \/ runConnectionStart
    \/ runConnection
    \/ ConnectionLost
    \/ AgentPingIntervalPasses
    \/ \E i \in 1..MaxHeartbeats : heartbeatTick(i)
    \/ \E i \in 1..MaxHeartbeats, ok \in BOOLEAN : sendPing(i, ok)
    \/ handlePong
    \/ \E success \in BOOLEAN : agentHandleMessageDefault(success)
    \/ agentHandlePing(1, 1)
    \/ sendMessageWithRetryLock
    \/ \E ok \in BOOLEAN : sendMessageWithRetryUnlock(ok)

SpecSteps == Init /\ [][NextSteps]_vars

\* C33: the agent treats a connection as established only after a REGISTER_ACK
\* with success true, and ends the attempt on one with success false: it
\* answers a frame of the read loop only on an acknowledged connection, and
\* a.conn is no live socket once a refusal has been read
C33_AckAwaited ==
    /\ agent.pc = "send" => agent.ack = "ok"
    /\ agent.ack = "refused" => agent.conn # "open"

\* C34: a heartbeat loop closes the socket only when no PONG has been handled
\* for more than 3 ping intervals or when its 3rd consecutive ping send fails
C34_HeartbeatCloses ==
    [][ (agent.conn # "nil" /\ agent'.conn = "nil")
        => \/ agent.pongAge > 3
           \/ \E i \in 1..MaxHeartbeats :
                 /\ agent.beats[i].writing
                 /\ agent.beats[i].failures = MaxPingFailures - 1
                 /\ ~agent'.beats[i].on ]_vars

\* C35: at most one goroutine is inside WriteJSON on the agent's socket
C35_WritesSerialised == Cardinality(agent.writers) <= 1

\* C40: at most one heartbeat loop runs at any time
C40_OneHeartbeat == Cardinality(RunningBeats) <= 1

\* the requests followed when every sender on a result channel runs: the
\* channel of one request is reached through its own msg_id only
ChanReqs == { r \in ReqIds : r <= 1 }

\* requests through the tunnel with every sender on a result channel: agent A
\* stays connected and answers with RESPONSE and ERROR frames (any number, at
\* any time), the 5 min sweep runs
NextChan ==
    \/ HandleWebSocket(1, "A", "tA", TRUE)
    \/ registerClient(1)
    \/ ReaderTop(1)
    \/ \E m \in wire, op \in { "RESPONSE", "ERROR" } : ReaderRead(1, Frame(op, m))
    \/ WriterSend(1, TRUE)
    \/ \E w \in WorkerIds : WorkerTake(w)
    \/ \E w \in WorkerIds : handleResponse(w)
    \/ \E w \in WorkerIds : handleErrorMessage(w)
    \/ \E r \in ChanReqs : HandleDirectProxyRequest(r, PathUsers)
    \/ \E r \in ChanReqs : RequestStep(r)
    \/ Tick(PendingMaxAgeTicks + 1)
    \/ CleanupExpiredPending

SpecChan == Init /\ [][NextChan]_vars

\* C36: nothing is sent on a result channel after SendRequestAndWait has
\* closed it: a value enters the slot of a request only while its entry is in
\* the pending table and the channel is open, the channel is closed only
\* once the entry is out of the table, and no send hits a closed channel
C36_NoSendAfterClose ==
    [][ /\ ~panicked'
        /\ \A m \in ReqIds :
              /\ Len(reqs'[m].resultCh) > Len(reqs[m].resultCh)
                    => (m \in pending /\ ~reqs[m].chClosed)
              /\ (reqs'[m].chClosed /\ ~reqs[m].chClosed) => m \notin pending'
      ]_vars

\* a frame for a request whose channel is closed is about to be handled
C36_Witness ==
    /\ ~panicked
    /\ \E m \in ReqIds, w \in WorkerIds :
          /\ reqs[m].chClosed
          /\ m \notin pending
          /\ workers[w].kind = "msg"
          /\ workers[w].frame.op \in { "RESPONSE", "ERROR" }
          /\ workers[w].frame.msgID = m

\* agents A and B are both connected; a request is dispatched to the agent of
\* its route, and either agent writes RESPONSE and ERROR frames that carry the
\* msg_id of a pending request
NextCross ==
    \/ HandleWebSocket(1, "A", "tA", TRUE)
    \/ HandleWebSocket(2, "B", "tB", TRUE)
    \/ \E k \in AgentSlots : registerClient(k)
    \/ \E k \in AgentSlots : ReaderTop(k)
    \/ \E k \in AgentSlots, m \in pending, op \in { "RESPONSE", "ERROR" } :
          ReaderRead(k, Frame(op, m))
    \/ \E k \in AgentSlots : WriterSend(k, TRUE)
    \/ \E w \in WorkerIds : WorkerTake(w)
    \/ \E w \in WorkerIds : handleResponse(w)
    \/ \E w \in WorkerIds : handleErrorMessage(w)
    \/ \E r \in ChanReqs : HandleDirectProxyRequest(r, PathUsers)
    \/ \E r \in ChanReqs : RequestStep(r)
    \/ Tick(RequestTimeoutTicks + 1)

SpecCross == Init /\ [][NextCross]_vars

\* C37: a pending request dispatched to one client is resolved only by a
\* RESPONSE or ERROR frame read from that client's connection: when a worker
\* handling a frame fills the result slot of a request, the frame came from
\* the client the request was dispatched to
C37_OwnClientResolves ==
    [][ \A w \in WorkerIds, m \in ReqIds :
          ( /\ workers[w].kind = "msg"
            /\ workers[w].frame.op \in { "RESPONSE", "ERROR" }
            /\ workers[w].frame.msgID = m
            /\ workers'[w] = NoTask
            /\ Len(reqs'[m].resultCh) > Len(reqs[m].resultCh) )
          => workers[w].client = reqs[m].clientID ]_vars

\* C38: a connection whose context is cancelled is not treated as connected:
\* SendRequestAndWait passes its IsClientConnected check and gets a nil error
\* from SendToClient only for a connection that is not cancelled, so no
\* REQUEST enters a send queue whose writer loop has exited
C38_CancelledNotConnected ==
    [][ \A r \in ReqIds :
          /\ (reqs[r].pc = "forward" /\ reqs'[r].pc = "registered")
                => ~conns[clients[reqs[r].clientID]].cancelled
          /\ (reqs[r].pc = "registered" /\ reqs'[r].pc = "waiting")
                => /\ ~conns[clients[reqs[r].clientID]].cancelled
                   /\ conns[clients[reqs[r].clientID]].writer # "done" ]_vars

(***************************************************************************)
(* Worker pool lifecycle (performance/queue.go): Start, Submit, Stop       *)
(***************************************************************************)

\* close(wp.taskQueue): the buffered tasks stay in front of the mark
ClosedMark == [ kind |-> "closed" ]

\* a worker goroutine that has returned
ExitedWorker == [ kind |-> "exited" ]

\* wp.taskQueue is closed (and wp.ctx cancelled, Stop does both)
PoolClosed == taskQueue # << >> /\ taskQueue[Len(taskQueue)] = ClosedMark

\* WorkerPool.worker, one iteration of its loop: a task is received, or the
\* queue is closed and drained and the worker returns
worker(w) ==
    /\ ~panicked
    /\ workers[w] = NoTask
    /\ taskQueue # << >>
    /\ IF Head(taskQueue) = ClosedMark
       THEN /\ workers' = [ workers EXCEPT ![w] = ExitedWorker ]
            /\ UNCHANGED taskQueue
       ELSE /\ workers' = [ workers EXCEPT ![w] = Head(taskQueue) ]
            /\ taskQueue' = Tail(taskQueue)
    /\ UNCHANGED << agent, fn, dbClients, dbRoutes, clients, conns, pending, reqs, wire,
                    statusUpdate, panicked >>

\* WorkerPool.Submit called with the DatabaseUpdateTask of unregisterClient.
\* Before Stop the select sends or takes its default branch.  After Stop both
\* the send case and the ctx.Done() case can proceed and the runtime picks
\* one: the send on the closed channel panics, ctx.Done() returns ctx.Err()
WorkerPoolSubmit(c, sendChosen) ==
    /\ ~panicked
    /\ IF PoolClosed
       THEN /\ panicked' = sendChosen
            /\ UNCHANGED taskQueue
            /\ fn' = [ op |-> "Submit", client |-> c, closed |-> TRUE,
                       err |-> IF sendChosen THEN "panic" ELSE "context canceled" ]
       ELSE /\ sendChosen
            /\ taskQueue' = Submit(taskQueue, [ kind |-> "db", client |-> c ])
            /\ fn' = [ op |-> "Submit", client |-> c, closed |-> FALSE,
                       err |-> IF Len(taskQueue) < WorkerQueueSize THEN ""
                               ELSE "queue full" ]
            /\ UNCHANGED panicked
    /\ UNCHANGED << agent, dbClients, dbRoutes, clients, conns, pending, reqs, wire,
                    workers, statusUpdate >>

\* WorkerPool.Stop: wp.cancel(); close(wp.taskQueue), which panics on a queue
\* that is closed already
WorkerPoolStop ==
    /\ ~panicked
    /\ IF PoolClosed
       THEN /\ panicked' = TRUE
            /\ UNCHANGED taskQueue
       ELSE /\ taskQueue' = Append(taskQueue, ClosedMark)
            /\ UNCHANGED panicked
    /\ fn' = [ op |-> "Stop", closed |-> PoolClosed ]
    /\ UNCHANGED << agent, dbClients, dbRoutes, clients, conns, pending, reqs, wire,
                    workers, statusUpdate >>

\* the worker pool with its callers: connection teardowns submit status
\* updates, main stops the pool (explicitly and by its deferred call)
NextPool ==
    \/ \E c \in ClientIds, sendChosen \in BOOLEAN : WorkerPoolSubmit(c, sendChosen)
    \/ \E w \in WorkerIds : worker(w)
    \/ \E w \in WorkerIds : ExecuteDatabaseUpdate(w)
    \/ WorkerPoolStop

SpecPool == Init /\ [][NextPool]_vars

\* C39: the worker pool never crashes: no Stop closes a task queue that is
\* closed already, no Submit sends on a closed task queue, and a Submit
\* called after Stop returns an error
C39_PoolCrashFree ==
    /\ ~panicked
    /\ (fn.op = "Submit" /\ fn.closed) => fn.err \in { "context canceled" }


====
